---- MODULE Spec2Model ----
(***************************************************************************)
(* Event pipeline of the flower-shop services: the Kafka emitters of the   *)
(* catalog-service and the order-service, the upstream request handlers    *)
(* that publish through them, the broker topics, and the analytics-service *)
(* consumer loop with its two aggregation handlers and aggregate store.    *)
(***************************************************************************)
EXTENDS Integers, Sequences, FiniteSets, TLC

(* ------------------------------ bounds --------------------------------- *)
\* events the upstream services may try to publish in one behaviour
MaxReq == 2
\* product ids known to the catalog and carried by events
MaxProduct == 2
\* orders the order-service stores in one behaviour
MaxOrders == 1
\* faults of the analytics-service in one behaviour: process crashes plus
\* errors that reach the outer except of the consumer loop
MaxFaults == 1

Products == 1..MaxProduct
Users == {1}
Names == {"Rose", "Tulip"}
None == "None"
\* Python None in an integer column
NoneInt == -1

(* ------------------------------ dicts ---------------------------------- *)
\* dict.get(k, default)
Get(d, k, default) == IF k \in DOMAIN d THEN d[k] ELSE default

\* "k in d": d[k] raises KeyError when this is false
Has(d, k) == k \in DOMAIN d

\* json.dumps(v).encode("utf-8"): the bytes put on the wire
Serialize(d) == [json |-> TRUE, data |-> d]

\* json.loads(v.decode("utf-8")): fails on bytes that are not JSON
Deserialize(v) == IF v.json THEN [ok |-> TRUE, data |-> v.data] ELSE [ok |-> FALSE]

RECURSIVE SumTotal(_)
SumTotal(items) ==
    IF items = <<>> THEN 0
    ELSE Head(items).product_price * Head(items).quantity + SumTotal(Tail(items))


(* ------------------------------ state ---------------------------------- *)
VARIABLES
    catProducer,   \* catalog-service: KafkaProducerWrapper._producer
    catPhase,      \* catalog-service process: "init", "running", "stopped"
    ordProducer,   \* order-service: module-level producer
    ordPhase,      \* order-service process: "init", "running", "stopped"
    broker,        \* topic -> sequence of published values
    catalogDb,     \* catalog-service store: products by id, next id
    orderDb,       \* order-service store: orders, carts by user
    clock,         \* number of publish attempts so far; stamps the events
    dropped,       \* history: stamps of the events sent without a connection
    last,          \* outcome of the last call: what it returned to its caller
    sends,         \* per service, the send_event calls of concurrent requests:
                   \* where each stands and how it ended
    stops          \* per service, where the shutdown's stop call stands

emitVars == <<catProducer, catPhase, ordProducer, ordPhase, broker, catalogDb,
              orderDb, clock, dropped, last, sends, stops>>

Topics == {"product_views", "order_events", "catalog_events"}
Nets == {"ok", "fail"}

(* --------------------- catalog-service emitter ------------------------- *)
\* KafkaProducerWrapper.start: connect; on failure log and stay without a producer
Wrapper_start(net) ==
    IF net = "ok" THEN [producer |-> "open", raised |-> FALSE]
    ELSE [producer |-> None, raised |-> FALSE]

\* KafkaProducerWrapper.stop: try / except / finally around producer.stop()
Wrapper_stop(producer, closeOk) ==
    IF producer # None
    THEN [producer |-> None, raised |-> FALSE, closed |-> closeOk]
    ELSE [producer |-> producer, raised |-> FALSE, closed |-> FALSE]

\* variant: send_and_wait outside the try block, its failure reaches the caller
Wrapper_send_event_uncaught(producer, net, log, event) ==
    IF producer = None
    THEN [log |-> log, raised |-> FALSE, mode |-> "degraded"]
    ELSE IF net = "ok"
         THEN [log |-> Append(log, Serialize(event)), raised |-> FALSE, mode |-> "sent"]
         ELSE [log |-> log, raised |-> TRUE, mode |-> "failed"]

\* variant: without a producer the wrapper connects on demand and publishes
Wrapper_send_event_lazy(producer, net, log, event) ==
    IF producer = None
    THEN IF net = "ok"
         THEN [log |-> Append(log, Serialize(event)), raised |-> FALSE,
               mode |-> "degraded"]
         ELSE [log |-> log, raised |-> FALSE, mode |-> "degraded"]
    ELSE IF net = "ok"
         THEN [log |-> Append(log, Serialize(event)), raised |-> FALSE, mode |-> "sent"]
         ELSE [log |-> log, raised |-> FALSE, mode |-> "failed"]

\* KafkaProducerWrapper.send_event: skip without producer, swallow send errors
Wrapper_send_event(producer, net, log, event) ==
    IF producer = None
    THEN [log |-> log, raised |-> FALSE, mode |-> "degraded"]
    ELSE IF net = "ok"
         THEN [log |-> Append(log, Serialize(event)), raised |-> FALSE, mode |-> "sent"]
         ELSE [log |-> log, raised |-> FALSE, mode |-> "failed"]

(* ---------------------- order-service emitter -------------------------- *)
\* variant: the except branch forgets "producer = None", the unstarted
\* AIOKafkaProducer object stays in the global
start_kafka_producer_noreset(net) ==
    [producer |-> "open", raised |-> FALSE]

\* start_kafka_producer
start_kafka_producer(net) ==
    IF net = "ok" THEN [producer |-> "open", raised |-> FALSE]
    ELSE [producer |-> None, raised |-> FALSE]

\* stop_kafka_producer: producer.stop() is awaited outside any try block, so
\* its failure leaves the function before "producer = None"
stop_kafka_producer(producer, closeOk) ==
    IF producer # None
    THEN IF closeOk
         THEN [producer |-> None, raised |-> FALSE, closed |-> TRUE]
         ELSE [producer |-> producer, raised |-> TRUE, closed |-> FALSE]
    ELSE [producer |-> producer, raised |-> FALSE, closed |-> FALSE]

\* variant: no try / except around send_and_wait
send_event_uncaught(producer, net, log, event) ==
    IF producer = None
    THEN [log |-> log, raised |-> FALSE, mode |-> "degraded"]
    ELSE IF net = "ok"
         THEN [log |-> Append(log, Serialize(event)), raised |-> FALSE, mode |-> "sent"]
         ELSE [log |-> log, raised |-> TRUE, mode |-> "failed"]

\* send_event (order-service)
send_event(producer, net, log, event) ==
    IF producer = None
    THEN [log |-> log, raised |-> FALSE, mode |-> "degraded"]
    ELSE IF net = "ok"
         THEN [log |-> Append(log, Serialize(event)), raised |-> FALSE, mode |-> "sent"]
         ELSE [log |-> log, raised |-> FALSE, mode |-> "failed"]

(* ------------------- catalog-service request handlers ------------------ *)
NotFound == [detail |-> "Not found"]
ServerError == [detail |-> "Internal Server Error"]

\* the result of a handler: response, store as the handler leaves it, broker
Result(status, body, db, bk, send) ==
    [status |-> status, body |-> body, db |-> db, broker |-> bk, send |-> send]

\* a handler that ran its emitter call s: 500 when the call raised
AfterSend(s, okStatus, body, db, bk, topic) ==
    Result(IF s.raised THEN 500 ELSE okStatus,
           IF s.raised THEN ServerError ELSE body,
           db, [bk EXCEPT ![topic] = s.log], s.mode)

\* get_db, as the tests' _override_get_db provides it: the request's session
\* is committed when the handler returns and rolled back when it raises
get_db(db0, res) == IF res.status >= 400 THEN db0 ELSE res.db

\* the whole of get_db around a handler that has returned res: the COMMIT
\* comes after the handler, and with it after the handler's send_event; when
\* it fails the session is rolled back, what was published stays published
get_db_exit(db0, res, commitOk) ==
    [db |-> IF commitOk THEN get_db(db0, res) ELSE db0, broker |-> res.broker]

\* variant: the product is returned without a view event being published
get_product_silent(db, product_id, producer, net, bk, now) ==
    IF product_id \notin DOMAIN db.products
    THEN Result(404, NotFound, db, bk, "none")
    ELSE Result(200, db.products[product_id], db, bk, "none")

\* GET /products/{product_id}
get_product(db, product_id, producer, net, bk, now) ==
    IF product_id \notin DOMAIN db.products
    THEN Result(404, NotFound, db, bk, "none")
    ELSE LET product == db.products[product_id]
             s == Wrapper_send_event(producer, net, bk["product_views"],
                     [event |-> "product_view", product_id |-> product.id,
                      product_name |-> product.name, timestamp |-> now])
         IN AfterSend(s, 200, product, db, bk, "product_views")

\* POST /products/
create_product(db, payload, producer, net, bk, now) ==
    LET product == [id |-> db.nextId, name |-> payload.name]
        db1 == [products |-> [i \in DOMAIN db.products \cup {product.id} |->
                                 IF i = product.id THEN product ELSE db.products[i]],
                nextId |-> db.nextId + 1]
        s == Wrapper_send_event(producer, net, bk["catalog_events"],
                [event |-> "product_created", product_id |-> product.id,
                 name |-> product.name, timestamp |-> now])
    IN AfterSend(s, 201, product, db1, bk, "catalog_events")

\* PUT /products/{product_id}; payload holds only the fields that were set
update_product(db, product_id, payload, producer, net, bk, now) ==
    IF product_id \notin DOMAIN db.products
    THEN Result(404, NotFound, db, bk, "none")
    ELSE LET old == db.products[product_id]
             product == [old EXCEPT !.name = Get(payload, "name", old.name)]
             db1 == [db EXCEPT !.products[product_id] = product]
             s == Wrapper_send_event(producer, net, bk["catalog_events"],
                     [event |-> "product_updated", product_id |-> product.id,
                      timestamp |-> now])
         IN AfterSend(s, 200, product, db1, bk, "catalog_events")

\* DELETE /products/{product_id}
delete_product(db, product_id, producer, net, bk, now) ==
    IF product_id \notin DOMAIN db.products
    THEN Result(404, NotFound, db, bk, "none")
    ELSE LET deleted_id == db.products[product_id].id
             db1 == [db EXCEPT !.products =
                        [i \in DOMAIN db.products \ {product_id} |-> db.products[i]]]
             s == Wrapper_send_event(producer, net, bk["catalog_events"],
                     [event |-> "product_deleted", product_id |-> deleted_id,
                      timestamp |-> now])
         IN AfterSend(s, 204, [detail |-> "No Content"], db1, bk, "catalog_events")

(* -------------------- order-service request handlers ------------------- *)
\* cart lines ever created
MaxItems == 3
\* the quantity of a cart line
MaxQuantity == 3

\* OrderItemCreate built from a cart line or given in the request
OrderItem(product_id, quantity) ==
    [product_id |-> product_id,
     product_name |-> IF product_id = 1 THEN "Rose" ELSE "Tulip",
     product_price |-> 10 * product_id, quantity |-> quantity]

\* the order-service store before any request: no order, no cart; the id the
\* next cart line gets
EmptyOrderDb == [orders |-> <<>>, carts |-> <<>>, nextItem |-> 1]

\* _get_or_create_cart: the store with a cart for the user, committed
_get_or_create_cart(db, user_id) ==
    IF user_id \in DOMAIN db.carts THEN db
    ELSE [db EXCEPT !.carts = [u \in DOMAIN db.carts \cup {user_id} |->
                                 IF u = user_id THEN <<>> ELSE db.carts[u]]]

\* the response of a cart handler: status, the cart's lines, the store
CartResult(status, db, user_id) ==
    [status |-> status, items |-> db.carts[user_id], db |-> db]

\* the store with the lines of the user's cart replaced
WithCart(db, user_id, lines) == [db EXCEPT !.carts[user_id] = lines]

\* GET /cart/{user_id}
get_cart(db, user_id) == CartResult(200, _get_or_create_cart(db, user_id), user_id)

\* variant: every add inserts a line of its own
add_item_to_cart_insert(db, user_id, item) ==
    LET db1 == _get_or_create_cart(db, user_id)
        cart_item == [id |-> db1.nextItem, product_id |-> item.product_id,
                      product_name |-> item.product_name,
                      product_price |-> item.product_price,
                      quantity |-> item.quantity]
    IN CartResult(201, [WithCart(db1, user_id, Append(db1.carts[user_id], cart_item))
                           EXCEPT !.nextItem = @ + 1], user_id)

\* POST /cart/{user_id}/items
add_item_to_cart(db, user_id, item) ==
    LET db1 == _get_or_create_cart(db, user_id)
        lines == db1.carts[user_id]
        same == {j \in 1..Len(lines) : lines[j].product_id = item.product_id}
    IN IF same # {}
       THEN LET first == CHOOSE j \in same : \A k \in same : j <= k
            IN CartResult(201, WithCart(db1, user_id,
                                 [lines EXCEPT ![first].quantity = @ + item.quantity]),
                          user_id)
       ELSE LET cart_item == [id |-> db1.nextItem, product_id |-> item.product_id,
                              product_name |-> item.product_name,
                              product_price |-> item.product_price,
                              quantity |-> item.quantity]
            IN CartResult(201, [WithCart(db1, user_id, Append(lines, cart_item))
                                   EXCEPT !.nextItem = @ + 1], user_id)

\* the lines without the one whose id is item_id
Without(lines, item_id) ==
    LET keep == {j \in 1..Len(lines) : lines[j].id # item_id}
        RECURSIVE Pick(_)
        Pick(j) == IF j > Len(lines) THEN <<>>
                   ELSE (IF j \in keep THEN <<lines[j]>> ELSE <<>>) \o Pick(j + 1)
    IN Pick(1)

\* PUT /cart/{user_id}/items/{item_id}
update_cart_item(db, user_id, item_id, quantity) ==
    LET db1 == _get_or_create_cart(db, user_id)
        lines == db1.carts[user_id]
        found == {j \in 1..Len(lines) : lines[j].id = item_id}
    IN IF found = {} THEN CartResult(404, db1, user_id)
       ELSE IF quantity <= 0
       THEN CartResult(200, WithCart(db1, user_id, Without(lines, item_id)), user_id)
       ELSE LET j == CHOOSE k \in found : TRUE
            IN CartResult(200, WithCart(db1, user_id,
                                  [lines EXCEPT ![j].quantity = quantity]), user_id)

\* DELETE /cart/{user_id}/items/{item_id}
remove_cart_item(db, user_id, item_id) ==
    LET db1 == _get_or_create_cart(db, user_id)
        lines == db1.carts[user_id]
    IN IF \A j \in 1..Len(lines) : lines[j].id # item_id
       THEN CartResult(404, db1, user_id)
       ELSE CartResult(200, WithCart(db1, user_id, Without(lines, item_id)), user_id)

\* DELETE /cart/{user_id}
clear_cart(db, user_id) ==
    LET db1 == _get_or_create_cart(db, user_id)
    IN CartResult(200, WithCart(db1, user_id, <<>>), user_id)

\* variant: the order is stored and the cart is left as it is
create_order_keep_cart(db, order_in, producer, net, bk, now) ==
    LET user == order_in.user_id
        hasCart == user \in DOMAIN db.carts
        fromCart == order_in.items = <<>>
    IN IF fromCart /\ (~hasCart \/ db.carts[user] = <<>>)
       THEN Result(400, [detail |-> "No items provided and user cart is empty"],
                   db, bk, "none")
       ELSE LET items_data ==
                    IF fromCart
                    THEN [j \in 1..Len(db.carts[user]) |->
                            OrderItem(db.carts[user][j].product_id,
                                      db.carts[user][j].quantity)]
                    ELSE order_in.items
                order == [id |-> Len(db.orders) + 1, user_id |-> user,
                          status |-> "pending",
                          delivery_type |-> order_in.delivery_type,
                          total_amount |-> SumTotal(items_data),
                          items |-> items_data]
                db1 == [db EXCEPT !.orders = Append(db.orders, order)]
                s == send_event(producer, net, bk["order_events"],
                        [event |-> "order_created", order_id |-> order.id,
                         user_id |-> order.user_id, status |-> order.status,
                         delivery_type |-> order.delivery_type,
                         total_amount |-> order.total_amount,
                         items |-> order.items, created_at |-> now])
            IN AfterSend(s, 201, order, db1, bk, "order_events")

\* POST /orders/
create_order(db, order_in, producer, net, bk, now) ==
    LET user == order_in.user_id
        hasCart == user \in DOMAIN db.carts
        fromCart == order_in.items = <<>>
    IN IF fromCart /\ (~hasCart \/ db.carts[user] = <<>>)
       THEN Result(400, [detail |-> "No items provided and user cart is empty"],
                   db, bk, "none")
       ELSE LET items_data ==
                    IF fromCart
                    THEN [j \in 1..Len(db.carts[user]) |->
                            OrderItem(db.carts[user][j].product_id,
                                      db.carts[user][j].quantity)]
                    ELSE order_in.items
                order == [id |-> Len(db.orders) + 1, user_id |-> user,
                          status |-> "pending",
                          delivery_type |-> order_in.delivery_type,
                          total_amount |-> SumTotal(items_data),
                          items |-> items_data]
                \* session.commit() comes before the event is built and sent
                db1 == [db EXCEPT !.orders = Append(db.orders, order),
                                  !.carts = [u \in DOMAIN db.carts |->
                                               IF u = user THEN <<>> ELSE db.carts[u]]]
                s == send_event(producer, net, bk["order_events"],
                        [event |-> "order_created", order_id |-> order.id,
                         user_id |-> order.user_id, status |-> order.status,
                         delivery_type |-> order.delivery_type,
                         total_amount |-> order.total_amount,
                         items |-> order.items, created_at |-> now])
            IN AfterSend(s, 201, order, db1, bk, "order_events")

\* PUT /orders/{order_id}/status
update_order_status(db, order_id, status_update, producer, net, bk, now) ==
    IF order_id \notin 1..Len(db.orders)
    THEN Result(404, NotFound, db, bk, "none")
    ELSE LET order == [db.orders[order_id] EXCEPT !.status = status_update]
             db1 == [db EXCEPT !.orders[order_id] = order]
             s == send_event(producer, net, bk["order_events"],
                     [event |-> "order_status_updated", order_id |-> order.id,
                      user_id |-> order.user_id, status |-> order.status,
                      updated_at |-> now])
         IN AfterSend(s, 200, order, db1, bk, "order_events")

(* ------------------------ analytics-service ---------------------------- *)
VARIABLES
    pc,          \* where consume() stands
    consumer,    \* the loop's local "consumer": None, "created", "started"
    position,    \* in-memory position of the live consumer, by topic
    committed,   \* offsets the broker holds for group "analytics-service"
    msg,         \* the message the loop body is working on
    tx,          \* the open session transaction of the running handler
    idx,         \* line item the order handler works on
    store,       \* committed aggregate store: views, metrics, popular
    handled,     \* history: how often each <<topic, offset>> finished the loop
                 \* body with each outcome ("ok", "failed", "unknown")
    crashes,     \* process crashes so far
    connFails,   \* errors that reached the outer except of consume() so far
    slept,       \* "start": the process has not built a consumer yet; "yes":
                 \* asyncio.sleep(RETRY_DELAY_SECONDS) ran to its end since the
                 \* last consumer was built; "no" otherwise
    race,        \* two more members of group "analytics-service", each inside
                 \* the handler of a record of its own partition
    seed,        \* views of product 1 committed before those two records
    utc,         \* the time, counted in quarters of a day since the epoch
    zone,        \* the server's local time minus UTC, in quarters of a day
    resp         \* the response to the latest request to the analytics API;
                 \* None once the time or the store has moved on

aggVars == <<pc, consumer, position, committed, msg, tx, idx, store, handled,
             crashes, connFails, slept, race, seed, utc, zone, resp>>

vars == <<emitVars, aggVars>>

\* the two further members of the consumer group
Instances == {1, 2}
\* TOPICS of kafka_consumer.py
TOPICS == {"product_views", "order_events"}
RETRY_DELAY_SECONDS == 5

NoMsg == [topic |-> "", offset |-> 0, value |-> [none |-> TRUE]]
EmptyTx == [views |-> <<>>, metrics |-> <<>>, inserts |-> <<>>,
            updates |-> [i \in {} |-> 0]]
EmptyStore == [views |-> <<>>, metrics |-> <<>>, popular |-> <<>>]

\* a group member that has no record in hand
Idle == [pc |-> "idle", msg |-> NoMsg, tx |-> EmptyTx, idx |-> 1, out |-> ""]

\* the popular_products table as the open transaction sees it
TxTable(st, t) ==
    [i \in 1..Len(st.popular) |->
        IF i \in DOMAIN t.updates THEN t.updates[i] ELSE st.popular[i]] \o t.inserts

\* select(PopularProduct).where(product_id == p): indexes of the matching rows
SelectPopular(st, t, p) ==
    {i \in 1..Len(TxTable(st, t)) : TxTable(st, t)[i].product_id = p}

\* write row r at index i of the transaction's view of the table
TxWrite(st, t, i, r) ==
    IF i <= Len(st.popular)
    THEN [t EXCEPT !.updates = [j \in DOMAIN t.updates \cup {i} |->
                                   IF j = i THEN r ELSE t.updates[j]]]
    ELSE [t EXCEPT !.inserts[i - Len(st.popular)] = r]

\* session.begin() leaving normally: the pending rows become durable
CommitTx(st, t) ==
    [views |-> st.views \o t.views,
     metrics |-> st.metrics \o t.metrics,
     popular |-> TxTable(st, t)]

\* variant: the counter is kept, the ProductView record is not written
_handle_product_view_norecord(st, t, data) ==
    IF ~Has(data, "product_id") THEN [raised |-> TRUE, tx |-> EmptyTx]
    ELSE LET found == SelectPopular(st, t, data["product_id"])
         IN IF Cardinality(found) > 1 THEN [raised |-> TRUE, tx |-> EmptyTx]
            ELSE IF found # {}
            THEN LET i == CHOOSE j \in found : TRUE
                     popular == TxTable(st, t)[i]
                 IN [raised |-> FALSE,
                     tx |-> TxWrite(st, t, i,
                               [popular EXCEPT !.view_count = @ + 1])]
            ELSE [raised |-> FALSE,
                  tx |-> [t EXCEPT !.inserts = Append(@,
                            [product_id |-> data["product_id"],
                             product_name |-> Get(data, "product_name", "Unknown"),
                             view_count |-> 1, order_count |-> 0])]]

\* variant: the row found for the product is overwritten with view_count 1
_handle_product_view_reset(st, t, data) ==
    IF ~Has(data, "product_id") THEN [raised |-> TRUE, tx |-> EmptyTx]
    ELSE LET view == [product_id |-> data["product_id"],
                      user_id |-> Get(data, "user_id", NoneInt)]
             t1 == [t EXCEPT !.views = Append(@, view)]
             found == SelectPopular(st, t1, data["product_id"])
         IN IF Cardinality(found) > 1 THEN [raised |-> TRUE, tx |-> EmptyTx]
            ELSE IF found # {}
            THEN LET i == CHOOSE j \in found : TRUE
                     popular == TxTable(st, t1)[i]
                 IN [raised |-> FALSE,
                     tx |-> TxWrite(st, t1, i, [popular EXCEPT !.view_count = 1])]
            ELSE [raised |-> FALSE,
                  tx |-> [t1 EXCEPT !.inserts = Append(@,
                            [product_id |-> data["product_id"],
                             product_name |-> Get(data, "product_name", "Unknown"),
                             view_count |-> 1, order_count |-> 0])]]

\* _handle_product_view up to the end of the "async with session.begin()" body
_handle_product_view(st, t, data) ==
    IF ~Has(data, "product_id") THEN [raised |-> TRUE, tx |-> EmptyTx]
    ELSE LET view == [product_id |-> data["product_id"],
                      user_id |-> Get(data, "user_id", NoneInt)]
             t1 == [t EXCEPT !.views = Append(@, view)]
             found == SelectPopular(st, t1, data["product_id"])
         IN IF Cardinality(found) > 1 THEN [raised |-> TRUE, tx |-> EmptyTx]
            ELSE IF found # {}
            THEN LET i == CHOOSE j \in found : TRUE
                     popular == TxTable(st, t1)[i]
                 IN [raised |-> FALSE,
                     tx |-> TxWrite(st, t1, i,
                               [popular EXCEPT !.view_count = @ + 1])]
            ELSE [raised |-> FALSE,
                  tx |-> [t1 EXCEPT !.inserts = Append(@,
                            [product_id |-> data["product_id"],
                             product_name |-> Get(data, "product_name", "Unknown"),
                             view_count |-> 1, order_count |-> 0])]]

\* _handle_order_created: the OrderMetric insert that opens the transaction
_handle_order_created(st, t, data) ==
    IF ~(Has(data, "order_id") /\ Has(data, "user_id")
         /\ Has(data, "total_amount") /\ Has(data, "items_count"))
    THEN [raised |-> TRUE, tx |-> EmptyTx]
    ELSE [raised |-> FALSE,
          tx |-> [t EXCEPT !.metrics = Append(@,
                    [order_id |-> data["order_id"], user_id |-> data["user_id"],
                     total_amount |-> data["total_amount"],
                     items_count |-> data["items_count"],
                     delivery_type |-> Get(data, "delivery_type", "unknown"),
                     created_at |-> utc])]]

\* variant: no lookup, every line item inserts a row for its product
_handle_order_item_blind(st, t, item) ==
    IF ~Has(item, "product_id") THEN [raised |-> TRUE, tx |-> EmptyTx]
    ELSE [raised |-> FALSE,
          tx |-> [t EXCEPT !.inserts = Append(@,
                    [product_id |-> item["product_id"],
                     product_name |-> Get(item, "product_name", "Unknown"),
                     view_count |-> 0, order_count |-> 1])]]

\* variant: order_count grows by the line's quantity
_handle_order_item_quantity(st, t, item) ==
    IF ~Has(item, "product_id") THEN [raised |-> TRUE, tx |-> EmptyTx]
    ELSE LET product_id == item["product_id"]
             product_name == Get(item, "product_name", "Unknown")
             found == SelectPopular(st, t, product_id)
         IN IF Cardinality(found) > 1 THEN [raised |-> TRUE, tx |-> EmptyTx]
            ELSE IF found # {}
            THEN LET i == CHOOSE j \in found : TRUE
                     popular == TxTable(st, t)[i]
                 IN [raised |-> FALSE,
                     tx |-> TxWrite(st, t, i,
                               [popular EXCEPT !.order_count = @ + Get(item, "quantity", 1)])]
            ELSE [raised |-> FALSE,
                  tx |-> [t EXCEPT !.inserts = Append(@,
                            [product_id |-> product_id,
                             product_name |-> product_name,
                             view_count |-> 0,
                             order_count |-> Get(item, "quantity", 1)])]]

\* _handle_order_created: one pass of "for item in items"
_handle_order_item(st, t, item) ==
    IF ~Has(item, "product_id") THEN [raised |-> TRUE, tx |-> EmptyTx]
    ELSE LET product_id == item["product_id"]
             product_name == Get(item, "product_name", "Unknown")
             found == SelectPopular(st, t, product_id)
         IN IF Cardinality(found) > 1 THEN [raised |-> TRUE, tx |-> EmptyTx]
            ELSE IF found # {}
            THEN LET i == CHOOSE j \in found : TRUE
                     popular == TxTable(st, t)[i]
                 IN [raised |-> FALSE,
                     tx |-> TxWrite(st, t, i,
                               [popular EXCEPT !.order_count = @ + 1])]
            ELSE [raised |-> FALSE,
                  tx |-> [t EXCEPT !.inserts = Append(@,
                            [product_id |-> product_id,
                             product_name |-> product_name,
                             view_count |-> 0, order_count |-> 1])]]

\* variant: the branch is chosen by the event's name alone
Dispatch_by_event(m) ==
    LET event == Get(m.value, "event", "")
    IN IF event = "product_view" THEN "view"
       ELSE IF event = "order_created" THEN "order"
       ELSE "unknown"

\* the branch of the loop body a message takes
Dispatch(m) ==
    LET event_type == Get(m.value, "event_type", "")
    IN IF m.topic = "product_views" \/ event_type = "product_view" THEN "view"
       ELSE IF m.topic = "order_events" \/ event_type = "order_created" THEN "order"
       ELSE "unknown"

(* ----------------------- emitter-side actions -------------------------- *)
Called(svc, op, status, send, raised) ==
    [svc |-> svc, op |-> op, status |-> status, send |-> send, raised |-> raised]

\* start() and stop(): "send" tells how the connection attempt or the close went
Outcome(ok) == IF ok THEN "ok" ELSE "fail"

\* catalog-service lifespan, startup: kafka_producer.start()
CatStart(net) ==
    /\ catPhase = "init"
    /\ LET r == Wrapper_start(net)
       IN /\ catProducer' = r.producer
          /\ last' = Called("catalog", "start", 0, net, r.raised)
    /\ catPhase' = "running"
    /\ UNCHANGED <<ordProducer, ordPhase, broker, catalogDb, orderDb, clock, dropped,
                   sends, stops, aggVars>>

\* catalog-service lifespan, shutdown: kafka_producer.stop(); also a repeated stop
CatStop(closeOk) ==
    /\ LET r == Wrapper_stop(catProducer, closeOk)
       IN /\ catProducer' = r.producer
          /\ last' = Called("catalog", "stop", 0, Outcome(closeOk), r.raised)
    /\ catPhase' = "stopped"
    /\ UNCHANGED <<ordProducer, ordPhase, broker, catalogDb, orderDb, clock, dropped,
                   sends, stops, aggVars>>

\* the catalog-service process is started again: a new module-level wrapper
CatRestart ==
    /\ catPhase = "stopped"
    /\ catPhase' = "init"
    /\ catProducer' = None
    /\ last' = Called("catalog", "restart", 0, "none", FALSE)
    /\ UNCHANGED <<ordProducer, ordPhase, broker, catalogDb, orderDb, clock, dropped,
                   sends, stops, aggVars>>

\* order-service lifespan, startup: start_kafka_producer()
OrdStart(net) ==
    /\ ordPhase = "init"
    /\ LET r == start_kafka_producer(net)
       IN /\ ordProducer' = r.producer
          /\ last' = Called("order", "start", 0, net, r.raised)
    /\ ordPhase' = "running"
    /\ UNCHANGED <<catProducer, catPhase, broker, catalogDb, orderDb, clock, dropped,
                   sends, stops, aggVars>>

\* order-service lifespan, shutdown: stop_kafka_producer(); also a repeated stop
OrdStop(closeOk) ==
    /\ LET r == stop_kafka_producer(ordProducer, closeOk)
       IN /\ ordProducer' = r.producer
          /\ last' = Called("order", "stop", 0, Outcome(closeOk), r.raised)
    /\ ordPhase' = "stopped"
    /\ UNCHANGED <<catProducer, catPhase, broker, catalogDb, orderDb, clock, dropped,
                   sends, stops, aggVars>>

\* the order-service process is started again: the module global is None again
OrdRestart ==
    /\ ordPhase = "stopped"
    /\ ordPhase' = "init"
    /\ ordProducer' = None
    /\ last' = Called("order", "restart", 0, "none", FALSE)
    /\ UNCHANGED <<catProducer, catPhase, broker, catalogDb, orderDb, clock, dropped,
                   sends, stops, aggVars>>

\* a catalog request served: the handler has run, get_db commits or rolls back
CatalogServed(op, res, commitOk) ==
    /\ catalogDb' = get_db_exit(catalogDb, res, commitOk).db
    /\ broker' = get_db_exit(catalogDb, res, commitOk).broker
    /\ clock' = IF res.send = "none" THEN clock ELSE clock + 1
    /\ dropped' = IF res.send = "degraded" THEN dropped \cup {clock + 1} ELSE dropped
    /\ last' = Called("catalog", op, res.status, res.send, res.status = 500)
    /\ UNCHANGED <<catProducer, catPhase, ordProducer, ordPhase, orderDb, sends,
                   stops, aggVars>>

\* an order request served; the handler has committed its own session
OrderServed(op, res) ==
    /\ orderDb' = res.db
    /\ broker' = res.broker
    /\ clock' = IF res.send = "none" THEN clock ELSE clock + 1
    /\ dropped' = IF res.send = "degraded" THEN dropped \cup {clock + 1} ELSE dropped
    /\ last' = Called("order", op, res.status, res.send, res.status = 500)
    /\ UNCHANGED <<catProducer, catPhase, ordProducer, ordPhase, catalogDb, sends,
                   stops, aggVars>>

GetProduct(product_id, net) ==
    /\ clock < MaxReq
    /\ CatalogServed("get_product",
          get_product(catalogDb, product_id, catProducer, net, broker, clock + 1),
          TRUE)

CreateProduct(payload, net, commitOk) ==
    /\ clock < MaxReq
    /\ catalogDb.nextId <= MaxProduct
    /\ CatalogServed("create_product",
          create_product(catalogDb, payload, catProducer, net, broker, clock + 1),
          commitOk)

UpdateProduct(product_id, payload, net, commitOk) ==
    /\ clock < MaxReq
    /\ CatalogServed("update_product",
          update_product(catalogDb, product_id, payload, catProducer, net, broker,
                         clock + 1),
          commitOk)

DeleteProduct(product_id, net, commitOk) ==
    /\ clock < MaxReq
    /\ CatalogServed("delete_product",
          delete_product(catalogDb, product_id, catProducer, net, broker, clock + 1),
          commitOk)

CreateOrder(order_in, net) ==
    /\ clock < MaxReq
    /\ Len(orderDb.orders) < MaxOrders
    /\ OrderServed("create_order",
          create_order(orderDb, order_in, ordProducer, net, broker, clock + 1))

UpdateOrderStatus(order_id, status_update, net) ==
    /\ clock < MaxReq
    /\ OrderServed("update_order_status",
          update_order_status(orderDb, order_id, status_update, ordProducer, net,
                              broker, clock + 1))

\* a cart request served; the cart handlers commit and publish nothing
CartServed(op, res) ==
    /\ orderDb' = res.db
    /\ last' = Called("order", op, res.status, "none", FALSE)
    /\ UNCHANGED <<catProducer, catPhase, ordProducer, ordPhase, broker, catalogDb,
                   clock, dropped, sends, stops, aggVars>>

\* the quantity of the user's line of a product, 0 without one
InCart(db, user_id, product_id) ==
    IF user_id \notin DOMAIN db.carts THEN 0
    ELSE LET lines == db.carts[user_id]
             same == {j \in 1..Len(lines) : lines[j].product_id = product_id}
         IN IF same = {} THEN 0 ELSE lines[CHOOSE j \in same : TRUE].quantity

GetCart(user_id) == CartServed("get_cart", get_cart(orderDb, user_id))

AddItemToCart(user_id, item) ==
    /\ InCart(orderDb, user_id, item.product_id) + item.quantity <= MaxQuantity
    /\ orderDb.nextItem <= MaxItems
    /\ CartServed("add_item_to_cart", add_item_to_cart(orderDb, user_id, item))

UpdateCartItem(user_id, item_id, quantity) ==
    CartServed("update_cart_item", update_cart_item(orderDb, user_id, item_id, quantity))

RemoveCartItem(user_id, item_id) ==
    CartServed("remove_cart_item", remove_cart_item(orderDb, user_id, item_id))

ClearCart(user_id) == CartServed("clear_cart", clear_cart(orderDb, user_id))

\* request inputs
ProductPayloads == {[name |-> n] : n \in Names}
ProductUpdates == ProductPayloads \cup {[description |-> "new"]}
OrderInputs ==
    {[user_id |-> u, delivery_type |-> "pickup", items |-> its] :
        u \in Users,
        its \in {<<>>, <<OrderItem(1, 5)>>, <<OrderItem(1, 1), OrderItem(2, 1)>>}}
Statuses == {"confirmed"}
CartItems == {OrderItem(p, q) : p \in Products, q \in 1..MaxQuantity}

(* ------------- send_event calls in flight next to stop ----------------- *)
\* requests that call send_event at the same time, per service
MaxCallers == 2

Services == {"catalog", "order"}
Callers == 1..MaxCallers

\* the connection handle of a service's emitter
ProducerOf(svc) == IF svc = "catalog" THEN catProducer ELSE ordProducer

\* where a service's process stands
PhaseOf(svc) == IF svc = "catalog" THEN catPhase ELSE ordPhase

\* a send_event call: where it stands ("idle", "inflight", "returned",
\* "raised"), how it ended, and where the service's stop call stood when the
\* send began and when it ended
NoSend == [pc |-> "idle", out |-> "", began |-> "", ended |-> ""]

SendTopic(svc) == IF svc = "catalog" THEN "product_views" ELSE "order_events"

\* the event caller i hands to send_event
SendEvent(svc, i) ==
    IF svc = "catalog"
    THEN [event |-> "product_view", product_id |-> 1, product_name |-> "Rose",
          timestamp |-> i]
    ELSE [event |-> "order_status_updated", order_id |-> 1, user_id |-> 1,
          status |-> "confirmed", updated_at |-> i]

\* send_event up to its first await: the "producer is None" test, and
\* send_and_wait called on the producer object the global holds right now
send_begin(svc, i) ==
    /\ PhaseOf(svc) # "init"
    /\ sends[svc][i].pc = "idle"
    /\ sends' = [sends EXCEPT ![svc][i] =
                   IF ProducerOf(svc) = None
                   THEN [pc |-> "returned", out |-> "degraded",
                         began |-> stops[svc], ended |-> stops[svc]]
                   ELSE [@ EXCEPT !.pc = "inflight", !.began = stops[svc]]]
    /\ UNCHANGED <<catProducer, catPhase, ordProducer, ordPhase, broker, catalogDb,
                   orderDb, clock, dropped, last, stops, aggVars>>

\* send_and_wait comes back to the send_event that awaits it: delivered, or
\* failed with an error the except clause around it handles
send_end(svc, i, net) ==
    /\ sends[svc][i].pc = "inflight"
    /\ LET t == SendTopic(svc)
           s == IF svc = "catalog"
                THEN Wrapper_send_event("open", net, broker[t], SendEvent(svc, i))
                ELSE send_event("open", net, broker[t], SendEvent(svc, i))
       IN /\ broker' = [broker EXCEPT ![t] = s.log]
          /\ sends' = [sends EXCEPT ![svc][i] =
                         [@ EXCEPT !.pc = IF s.raised THEN "raised" ELSE "returned",
                                   !.out = s.mode, !.ended = stops[svc]]]
    /\ UNCHANGED <<catProducer, catPhase, ordProducer, ordPhase, catalogDb,
                   orderDb, clock, dropped, last, stops, aggVars>>

\* stop up to its await: nothing to do without a producer, else
\* "await producer.stop()" starts
stop_begin(svc) ==
    /\ PhaseOf(svc) = "running"
    /\ stops[svc] = "idle"
    /\ stops' = [stops EXCEPT ![svc] =
                   IF ProducerOf(svc) = None THEN "returned" ELSE "closing"]
    /\ UNCHANGED <<catProducer, catPhase, ordProducer, ordPhase, broker, catalogDb,
                   orderDb, clock, dropped, last, sends, aggVars>>

\* variant: stop cancels the send_event calls that are still in flight
stop_end_aborting(svc, closeOk) ==
    /\ stops[svc] = "closing"
    /\ LET r == IF svc = "catalog" THEN Wrapper_stop(catProducer, closeOk)
                ELSE stop_kafka_producer(ordProducer, closeOk)
       IN /\ catProducer' = IF svc = "catalog" THEN r.producer ELSE catProducer
          /\ ordProducer' = IF svc = "order" THEN r.producer ELSE ordProducer
          /\ stops' = [stops EXCEPT ![svc] = IF r.raised THEN "raised" ELSE "returned"]
    /\ catPhase' = IF svc = "catalog" THEN "stopped" ELSE catPhase
    /\ ordPhase' = IF svc = "order" THEN "stopped" ELSE ordPhase
    /\ sends' = [sends EXCEPT ![svc] =
                   [i \in Callers |->
                      IF sends[svc][i].pc = "inflight"
                      THEN [sends[svc][i] EXCEPT !.pc = "raised", !.out = "aborted",
                                                 !.ended = "closing"]
                      ELSE sends[svc][i]]]
    /\ UNCHANGED <<broker, catalogDb, orderDb, clock, dropped, last, aggVars>>

\* "await producer.stop()" is over: the rest of stop. It touches the global
\* and nothing else; the send_event coroutines are not its to cancel
stop_end(svc, closeOk) ==
    /\ stops[svc] = "closing"
    /\ LET r == IF svc = "catalog" THEN Wrapper_stop(catProducer, closeOk)
                ELSE stop_kafka_producer(ordProducer, closeOk)
       IN /\ catProducer' = IF svc = "catalog" THEN r.producer ELSE catProducer
          /\ ordProducer' = IF svc = "order" THEN r.producer ELSE ordProducer
          /\ stops' = [stops EXCEPT ![svc] = IF r.raised THEN "raised" ELSE "returned"]
    /\ catPhase' = IF svc = "catalog" THEN "stopped" ELSE catPhase
    /\ ordPhase' = IF svc = "order" THEN "stopped" ELSE ordPhase
    /\ UNCHANGED <<broker, catalogDb, orderDb, clock, dropped, last, sends, aggVars>>

(* ------------------------ consume(): the loop -------------------------- *)
\* the history with one more finished loop body for message m
Done(h, m, outcome) ==
    LET k == <<m.topic, m.offset, outcome>>
    IN [x \in DOMAIN h \cup {k} |-> IF x = k THEN (IF k \in DOMAIN h THEN h[k] + 1 ELSE 1)
                                   ELSE h[x]]

\* how often message <<t, offset>> finished the loop body with this outcome
Times(h, t, offset, outcome) ==
    IF <<t, offset, outcome>> \in DOMAIN h THEN h[<<t, offset, outcome>>] ELSE 0

\* what the loop leaves alone outside the analytics-service
aggOnly == UNCHANGED <<emitVars, crashes, race, seed, utc, zone, resp>>

\* "consumer = AIOKafkaConsumer(...); await consumer.start()": a new member of
\* group "analytics-service" resumes from the group's committed offsets
consume_connect(net) ==
    /\ pc = "top"
    /\ net = "fail" => crashes + connFails < MaxFaults
    /\ IF net = "ok"
       THEN /\ consumer' = "started"
            /\ position' = committed
            /\ pc' = "iter"
            /\ UNCHANGED connFails
       ELSE /\ consumer' = "created"
            /\ pc' = "except"
            /\ connFails' = connFails + 1
            /\ UNCHANGED position
    /\ slept' = "no"
    /\ UNCHANGED <<committed, msg, tx, idx, store, handled>>
    /\ aggOnly

\* variant: the loop body is started as a task of its own and the loop
\* fetches the next record while a handler is still running
consume_next_concurrent(t) ==
    /\ pc \in {"iter", "view", "order", "items", "commit"}
    /\ position[t] < Len(broker[t])
    /\ LET offset == position[t] + 1
           d == Deserialize(broker[t][offset])
           message == [topic |-> t, offset |-> offset, value |-> d.data]
       IN IF d.ok
          THEN /\ position' = [position EXCEPT ![t] = offset]
               /\ IF Dispatch(message) = "unknown"
                  THEN /\ pc' = "iter"
                       /\ handled' = Done(handled, message, "unknown")
                       /\ msg' = NoMsg
                  ELSE /\ pc' = Dispatch(message)
                       /\ msg' = message
                       /\ UNCHANGED handled
               /\ UNCHANGED connFails
          ELSE /\ crashes + connFails < MaxFaults
               /\ connFails' = connFails + 1
               /\ pc' = "except"
               /\ UNCHANGED <<position, msg, handled>>
    /\ tx' = EmptyTx
    /\ idx' = 1
    /\ UNCHANGED <<consumer, committed, store, slept>>
    /\ aggOnly

\* "async for message in consumer": the next record of topic t is fetched and
\* run through value_deserializer inside the consumer, outside the inner try;
\* a record that deserializes enters the loop body, which picks its handler
consume_next(t) ==
    /\ pc = "iter"
    /\ position[t] < Len(broker[t])
    /\ LET offset == position[t] + 1
           d == Deserialize(broker[t][offset])
           message == [topic |-> t, offset |-> offset, value |-> d.data]
       IN IF d.ok
          THEN /\ position' = [position EXCEPT ![t] = offset]
               /\ IF Dispatch(message) = "unknown"
                  THEN /\ pc' = "iter"
                       /\ handled' = Done(handled, message, "unknown")
                       /\ msg' = NoMsg
                  ELSE /\ pc' = Dispatch(message)
                       /\ msg' = message
                       /\ UNCHANGED handled
               /\ UNCHANGED connFails
          ELSE /\ crashes + connFails < MaxFaults
               /\ connFails' = connFails + 1
               /\ pc' = "except"
               /\ UNCHANGED <<position, msg, handled>>
    /\ tx' = EmptyTx
    /\ idx' = 1
    /\ UNCHANGED <<consumer, committed, store, slept>>
    /\ aggOnly

\* "async for message in consumer" raises: the connection is lost
consume_lost ==
    /\ pc = "iter"
    /\ crashes + connFails < MaxFaults
    /\ connFails' = connFails + 1
    /\ pc' = "except"
    /\ UNCHANGED <<consumer, position, committed, msg, tx, idx, store, handled, slept>>
    /\ aggOnly

\* variant: no try / except in the loop body, the handler's exception reaches
\* the outer except of consume()
HandlerFailed_propagates ==
    /\ pc' = "except"
    /\ tx' = EmptyTx
    /\ idx' = 1
    /\ handled' = Done(handled, msg, "failed")
    /\ msg' = NoMsg
    /\ UNCHANGED store

\* variant: the handler works without session.begin(), what it wrote before
\* the exception stays in the store
HandlerFailed_norollback ==
    /\ pc' = "iter"
    /\ tx' = EmptyTx
    /\ idx' = 1
    /\ handled' = Done(handled, msg, "failed")
    /\ msg' = NoMsg
    /\ store' = CommitTx(store, tx)

\* the handler raised: session.begin() rolls back, the inner except logs
HandlerFailed ==
    /\ pc' = "iter"
    /\ tx' = EmptyTx
    /\ idx' = 1
    /\ handled' = Done(handled, msg, "failed")
    /\ msg' = NoMsg
    /\ UNCHANGED store

\* await _handle_product_view(data), up to the commit
handle_view(dbOk) ==
    /\ pc = "view"
    /\ LET r == _handle_product_view(store, tx, msg.value)
       IN IF r.raised \/ ~dbOk
          THEN HandlerFailed
          ELSE /\ tx' = r.tx
               /\ pc' = "commit"
               /\ UNCHANGED <<idx, handled, msg, store>>
    /\ UNCHANGED <<consumer, position, committed, connFails, slept>>
    /\ aggOnly

\* await _handle_order_created(data): the OrderMetric insert
handle_order(dbOk) ==
    /\ pc = "order"
    /\ LET r == _handle_order_created(store, tx, msg.value)
       IN IF r.raised \/ ~dbOk
          THEN HandlerFailed
          ELSE /\ tx' = r.tx
               /\ pc' = "items"
               /\ UNCHANGED <<idx, handled, msg, store>>
    /\ UNCHANGED <<consumer, position, committed, connFails, slept>>
    /\ aggOnly

\* _handle_order_created: "for item in items", one line item per step
handle_order_item(dbOk) ==
    /\ pc = "items"
    /\ LET items == Get(msg.value, "items", <<>>)
       IN IF idx > Len(items)
          THEN /\ pc' = "commit"
               /\ UNCHANGED <<tx, idx, handled, msg, store>>
          ELSE LET r == _handle_order_item(store, tx, items[idx])
               IN IF r.raised \/ ~dbOk
                  THEN HandlerFailed
                  ELSE /\ tx' = r.tx
                       /\ idx' = idx + 1
                       /\ UNCHANGED <<pc, handled, msg, store>>
    /\ UNCHANGED <<consumer, position, committed, connFails, slept>>
    /\ aggOnly

\* variant: a processed-message table, a message handled before is skipped
session_commit_dedup(dbOk) ==
    /\ pc = "commit"
    /\ IF dbOk
       THEN /\ store' = IF Times(handled, msg.topic, msg.offset, "ok") > 0
                        THEN store ELSE CommitTx(store, tx)
            /\ handled' = Done(handled, msg, "ok")
            /\ pc' = "iter"
            /\ tx' = EmptyTx
            /\ idx' = 1
            /\ msg' = NoMsg
       ELSE HandlerFailed
    /\ UNCHANGED <<consumer, position, committed, connFails, slept>>
    /\ aggOnly

\* leaving "async with session.begin()": COMMIT, or ROLLBACK when it fails
session_commit(dbOk) ==
    /\ pc = "commit"
    /\ IF dbOk
       THEN /\ store' = CommitTx(store, tx)
            /\ handled' = Done(handled, msg, "ok")
            /\ pc' = "iter"
            /\ tx' = EmptyTx
            /\ idx' = 1
            /\ msg' = NoMsg
       ELSE HandlerFailed
    /\ UNCHANGED <<consumer, position, committed, connFails, slept>>
    /\ aggOnly

\* the consumer is built with the default enable_auto_commit: a background
\* task of the started consumer commits the positions from time to time
auto_commit ==
    /\ consumer = "started"
    /\ committed # position
    /\ committed' = position
    /\ UNCHANGED <<pc, consumer, position, msg, tx, idx, store, handled,
                   connFails, slept>>
    /\ aggOnly

\* variant: the loop leaves the outer except without the retry delay
consume_except_nodelay ==
    /\ pc = "except"
    /\ pc' = "finally"
    /\ UNCHANGED <<consumer, position, committed, msg, tx, idx, store, handled,
                   connFails, slept>>
    /\ aggOnly

\* outer "except Exception": log, await asyncio.sleep(RETRY_DELAY_SECONDS)
consume_except ==
    /\ pc = "except"
    /\ slept' = "yes"
    /\ pc' = "finally"
    /\ UNCHANGED <<consumer, position, committed, msg, tx, idx, store, handled,
                   connFails>>
    /\ aggOnly

\* "finally": stop the consumer if there is one (a started consumer commits
\* its positions when it stops), swallow a failure of stop(), loop again
consume_finally(stopOk) ==
    /\ pc = "finally"
    /\ committed' = IF consumer = "started" /\ stopOk THEN position ELSE committed
    /\ consumer' = None
    /\ position' = [t \in TOPICS |-> 0]
    /\ pc' = "top"
    /\ UNCHANGED <<msg, tx, idx, store, handled, connFails, slept>>
    /\ aggOnly

\* lifespan shutdown: consumer_task.cancel(), awaited until consume() is left.
\* CancelledError is raised at the await consume() is suspended in; it is not
\* an Exception, so neither the inner nor the outer except catches it. A
\* handler in flight is left through session.begin(), which rolls back; the
\* finally block then stops the consumer as it does on any other way out.
\* When the await cancelled is that consumer.stop() itself, consume() is left
\* at once with the consumer as it is.
Cancel(stopOk) ==
    /\ pc # "done"
    /\ pc' = "done"
    /\ handled' = IF msg # NoMsg THEN Done(handled, msg, "aborted") ELSE handled
    /\ msg' = NoMsg
    /\ tx' = EmptyTx
    /\ idx' = 1
    /\ IF pc = "finally"
       THEN UNCHANGED <<consumer, position, committed>>
       ELSE /\ committed' = IF consumer = "started" /\ stopOk
                            THEN position ELSE committed
            /\ consumer' = None
            /\ position' = [t \in TOPICS |-> 0]
    /\ UNCHANGED <<store, connFails, slept>>
    /\ aggOnly

\* the running analytics-service process dies and is started again:
\* everything in memory is gone, the store and the broker keep what was
\* committed
Crash ==
    /\ crashes + connFails < MaxFaults
    /\ pc \notin {"top", "done"}
    /\ crashes' = crashes + 1
    /\ pc' = "top"
    /\ consumer' = None
    /\ position' = [t \in TOPICS |-> 0]
    /\ msg' = NoMsg
    /\ tx' = EmptyTx
    /\ idx' = 1
    /\ slept' = "start"
    /\ UNCHANGED <<committed, store, handled, connFails, race, seed, utc, zone, resp>>
    /\ UNCHANGED emitVars

(* ------------- two consumers of the group on one store ----------------- *)
\* the handler context of a group member: where it stands, its record, its
\* open transaction, the line item it works on, and how its handler ended
Running(m) == [pc |-> Dispatch(m), msg |-> m, tx |-> EmptyTx, idx |-> 1, out |-> ""]
Ended(me, outcome) == [me EXCEPT !.pc = "done", !.tx = EmptyTx, !.idx = 1, !.out = outcome]

\* the column a handler assigns on a row it found: "popular.view_count += 1"
\* in _handle_product_view, "popular.order_count += 1" in _handle_order_created
Column(kind) == IF kind = "view" THEN "view_count" ELSE "order_count"

\* flush and COMMIT of a session next to other writers: every fact record and
\* every new row is inserted, and every row the handler changed gets
\* "UPDATE popular_products SET <column> = <the value computed from the row
\* as it was read>"; the other column keeps what is committed
FlushCommit(st, t, column) ==
    [views |-> st.views \o t.views,
     metrics |-> st.metrics \o t.metrics,
     popular |-> [k \in 1..Len(st.popular) |->
                    IF k \notin DOMAIN t.updates THEN st.popular[k]
                    ELSE IF column = "view_count"
                    THEN [st.popular[k] EXCEPT !.view_count = t.updates[k].view_count]
                    ELSE [st.popular[k] EXCEPT !.order_count = t.updates[k].order_count]]
                 \o t.inserts]

\* product_id is unique in popular_products: the INSERT of a row whose
\* product_id another transaction has committed meanwhile is rejected
UniqueViolation(st, t) ==
    \E j \in 1..Len(t.inserts) :
        \E k \in 1..Len(st.popular) : st.popular[k].product_id = t.inserts[j].product_id

\* member i: _handle_product_view up to the end of the session.begin() body
RaceView(i) ==
    /\ race[i].pc = "view"
    /\ LET r == _handle_product_view(store, race[i].tx, race[i].msg.value)
       IN race' = [race EXCEPT ![i] =
                     IF r.raised THEN Ended(@, "failed")
                     ELSE [@ EXCEPT !.tx = r.tx, !.pc = "commit"]]
    /\ UNCHANGED <<emitVars, pc, consumer, position, committed, msg, tx, idx, store,
                   handled, crashes, connFails, slept, seed,
                   utc, zone, resp>>

\* member i: _handle_order_created, the OrderMetric insert
RaceOrder(i) ==
    /\ race[i].pc = "order"
    /\ LET r == _handle_order_created(store, race[i].tx, race[i].msg.value)
       IN race' = [race EXCEPT ![i] =
                     IF r.raised THEN Ended(@, "failed")
                     ELSE [@ EXCEPT !.tx = r.tx, !.pc = "items"]]
    /\ UNCHANGED <<emitVars, pc, consumer, position, committed, msg, tx, idx, store,
                   handled, crashes, connFails, slept, seed,
                   utc, zone, resp>>

\* member i: _handle_order_created, one pass of "for item in items"
RaceOrderItem(i) ==
    /\ race[i].pc = "items"
    /\ LET items == Get(race[i].msg.value, "items", <<>>)
       IN IF race[i].idx > Len(items)
          THEN race' = [race EXCEPT ![i].pc = "commit"]
          ELSE LET r == _handle_order_item(store, race[i].tx, items[race[i].idx])
               IN race' = [race EXCEPT ![i] =
                             IF r.raised THEN Ended(@, "failed")
                             ELSE [@ EXCEPT !.tx = r.tx, !.idx = @ + 1]]
    /\ UNCHANGED <<emitVars, pc, consumer, position, committed, msg, tx, idx, store,
                   handled, crashes, connFails, slept, seed,
                   utc, zone, resp>>

\* member i leaves session.begin(): flush and COMMIT; an IntegrityError of the
\* flush rolls the whole transaction back and the loop body logs it
RaceCommit(i) ==
    /\ race[i].pc = "commit"
    /\ IF UniqueViolation(store, race[i].tx)
       THEN /\ race' = [race EXCEPT ![i] = Ended(@, "failed")]
            /\ UNCHANGED store
       ELSE /\ race' = [race EXCEPT ![i] = Ended(@, "ok")]
            /\ store' = FlushCommit(store, race[i].tx, Column(Dispatch(race[i].msg)))
    /\ UNCHANGED <<emitVars, pc, consumer, position, committed, msg, tx, idx,
                   handled, crashes, connFails, slept, seed,
                   utc, zone, resp>>

(* ------------------------- the analytics API --------------------------- *)
\* the resolution of the clock: utc and created_at count these per day
TicksPerDay == 4
\* OrderMetric records the dashboard is asked about
MaxMetrics == 3
\* total_amount of an order event, in cents
MaxAmount == 2
\* rows of popular_products the top lists are asked about
MaxRows == 12

\* ".limit(10)" of the top lists
LIMIT == 10

\* server time zones: UTC-6, UTC, UTC+6
Zones == {-1, 0, 1}
Amounts == 1..MaxAmount
LastTick == 2 * TicksPerDay + 1

NoResp == [kind |-> "none"]

\* datetime.utcnow(): the naive UTC time
utcnow == utc
\* date.today(): the local calendar day
today == (utc + zone) \div TicksPerDay
\* datetime.combine(date.today(), time.min): the naive local midnight
today_start == today * TicksPerDay

\* func.coalesce(func.sum(OrderMetric.total_amount), 0.0)
RECURSIVE SumAmount(_)
SumAmount(metrics) ==
    IF metrics = <<>> THEN 0
    ELSE Head(metrics).total_amount + SumAmount(Tail(metrics))

\* variant: the quotient is cut off after the second decimal
round2_floor(num, den, tieUp) == num \div den

\* round(num / den, 2) on amounts in cents: the nearest cent; when the
\* quotient lies halfway between two cents the binary value of the float
\* decides, either neighbour can come out
round2(num, den, tieUp) ==
    LET q == num \div den
        r == num % den
    IN IF 2 * r > den THEN q + 1
       ELSE IF 2 * r < den THEN q
       ELSE IF tieUp THEN q + 1 ELSE q

\* "total_revenue / total_orders if total_orders > 0 else 0.0", rounded
avg_order_value(total_revenue, total_orders, tieUp) ==
    IF total_orders > 0 THEN round2(total_revenue, total_orders, tieUp) ELSE 0

\* select count(OrderMetric.id) where created_at >= today_start
orders_today(metrics) ==
    Cardinality({i \in 1..Len(metrics) : metrics[i].created_at >= today_start})

\* PopularProductResponse.model_validate(p)
PopularProductResponse(p) ==
    [product_id |-> p.product_id, product_name |-> p.product_name,
     view_count |-> p.view_count, order_count |-> p.order_count]

Col(r, col) == IF col = "view_count" THEN r.view_count ELSE r.order_count

\* row r put into rows, which are in descending order of col; the database
\* gives no order to rows with equal col: they come out in the order of the
\* table (stable) or against it
InsertRow(rows, r, col, stable) ==
    LET ahead == {i \in 1..Len(rows) :
                    \/ Col(rows[i], col) > Col(r, col)
                    \/ stable /\ Col(rows[i], col) = Col(r, col)}
    IN SubSeq(rows, 1, Cardinality(ahead)) \o <<r>>
       \o SubSeq(rows, Cardinality(ahead) + 1, Len(rows))

\* variant: ".order_by(col)", ascending
RECURSIVE order_by_asc(_, _, _)
order_by_asc(rows, col, stable) ==
    IF rows = <<>> THEN <<>>
    ELSE LET rest == order_by_asc(SubSeq(rows, 1, Len(rows) - 1), col, stable)
             r == rows[Len(rows)]
             before == {i \in 1..Len(rest) : Col(rest[i], col) <= Col(r, col)}
         IN SubSeq(rest, 1, Cardinality(before)) \o <<r>>
            \o SubSeq(rest, Cardinality(before) + 1, Len(rest))

\* ".order_by(col.desc())"
RECURSIVE order_by_desc(_, _, _)
order_by_desc(rows, col, stable) ==
    IF rows = <<>> THEN <<>>
    ELSE LET rest == order_by_desc(SubSeq(rows, 1, Len(rows) - 1), col, stable)
         IN InsertRow(rest, rows[Len(rows)], col, stable)

\* ".limit(n)"
limit(rows, n) == SubSeq(rows, 1, IF Len(rows) < n THEN Len(rows) ELSE n)

\* select(PopularProduct).order_by(col.desc()).limit(10), validated
popular_by(st, col, stable) ==
    LET rows == limit(order_by_desc(st.popular, col, stable), LIMIT)
    IN [i \in 1..Len(rows) |-> PopularProductResponse(rows[i])]

\* GET /analytics/dashboard
get_dashboard(st, tieUp, stable) ==
    LET total_orders == Len(st.metrics)
        total_revenue == SumAmount(st.metrics)
    IN [kind |-> "dashboard",
        total_orders |-> total_orders,
        total_revenue |-> total_revenue,
        avg_order_value |-> avg_order_value(total_revenue, total_orders, tieUp),
        orders_today |-> orders_today(st.metrics),
        popular_by_views |-> popular_by(st, "view_count", stable),
        popular_by_orders |-> popular_by(st, "order_count", stable)]

\* GET /analytics/popular/views
get_popular_by_views(st, stable) ==
    [kind |-> "views", rows |-> popular_by(st, "view_count", stable)]

\* GET /analytics/popular/orders
get_popular_by_orders(st, stable) ==
    [kind |-> "orders", rows |-> popular_by(st, "order_count", stable)]

dashOnly == UNCHANGED <<emitVars, pc, consumer, position, committed, msg, tx, idx,
                        handled, crashes, connFails, slept, race, seed, zone>>

\* time passes
Tick ==
    /\ utc < LastTick
    /\ utc' = utc + 1
    /\ resp' = NoResp
    /\ UNCHANGED store
    /\ dashOnly

\* an order event without line items, from the handler's first statement to
\* the commit of its transaction
OrderAggregated(amount) ==
    /\ Len(store.metrics) < MaxMetrics
    /\ LET data == [event |-> "order_created", order_id |-> Len(store.metrics) + 1,
                    user_id |-> 1, total_amount |-> amount, items_count |-> 0,
                    delivery_type |-> "pickup", items |-> <<>>]
       IN store' = CommitTx(store, _handle_order_created(store, EmptyTx, data).tx)
    /\ resp' = NoResp
    /\ UNCHANGED utc
    /\ dashOnly

GetDashboard(tieUp, stable) ==
    /\ resp' = get_dashboard(store, tieUp, stable)
    /\ UNCHANGED <<store, utc>>
    /\ dashOnly

GetPopularByViews(stable) ==
    /\ resp' = get_popular_by_views(store, stable)
    /\ UNCHANGED <<store, utc>>
    /\ dashOnly

GetPopularByOrders(stable) ==
    /\ resp' = get_popular_by_orders(store, stable)
    /\ UNCHANGED <<store, utc>>
    /\ dashOnly

\* a row as the first view of its product has left it
Fresh(row) == row.view_count = 1 /\ row.order_count = 0

\* products come to the table one after the other; each is viewed, and then
\* either viewed once more or ordered, before the next one appears
Due(p) ==
    LET n == Len(store.popular)
    IN IF n > 0 /\ Fresh(store.popular[n]) THEN p = n ELSE p = n + 1

\* a view event of product p, from the handler's first statement to the
\* commit of its transaction
ViewAggregated(p) ==
    /\ Due(p)
    /\ LET data == [event |-> "product_view", product_id |-> p,
                    product_name |-> "Product", timestamp |-> 0]
       IN store' = CommitTx(store, _handle_product_view(store, EmptyTx, data).tx)
    /\ resp' = NoResp
    /\ UNCHANGED utc
    /\ dashOnly

\* an order event with one line, of product p, likewise
OrderLineAggregated(p) ==
    /\ Due(p)
    /\ p = Len(store.popular)
    /\ LET item == [product_id |-> p, product_name |-> "Product", quantity |-> 1]
           data == [event |-> "order_created", order_id |-> Len(store.metrics) + 1,
                    user_id |-> 1, total_amount |-> 1, items_count |-> 1,
                    delivery_type |-> "pickup", items |-> <<item>>]
           t == _handle_order_created(store, EmptyTx, data).tx
       IN store' = CommitTx(store, _handle_order_item(store, t, item).tx)
    /\ resp' = NoResp
    /\ UNCHANGED utc
    /\ dashOnly

(* --------------------------- specifications ---------------------------- *)
\* messages that are on the broker when the consumer first starts
MaxLog == 2

ProductName(p) == IF p = 1 THEN "Rose" ELSE "Tulip"

\* values on product_views: a view event of product 1, and bytes that are
\* not JSON
ViewValues ==
    {Serialize([event |-> "product_view", product_id |-> 1,
                product_name |-> ProductName(1), timestamp |-> 0]),
     [json |-> FALSE]}

\* values on order_events: a complete order event with one line of product 2
\* (quantity 5) and two lines of product 1, and an order event whose second
\* line item has no product_id
OrderValues ==
    {Serialize([event |-> "order_created", order_id |-> 1, user_id |-> 1,
                total_amount |-> 120, items_count |-> 3, delivery_type |-> "pickup",
                items |-> <<[product_id |-> 2, product_name |-> "Tulip",
                             quantity |-> 5],
                            [product_id |-> 1, product_name |-> "Rose",
                             quantity |-> 1],
                            [product_id |-> 1, product_name |-> "Rose",
                             quantity |-> 1]>>]),
     Serialize([event |-> "order_created", order_id |-> 2, user_id |-> 1,
                total_amount |-> 30, items_count |-> 2, delivery_type |-> "delivery",
                items |-> <<[product_id |-> 1, product_name |-> "Rose",
                             quantity |-> 1],
                            [product_name |-> "Tulip", quantity |-> 1]>>])}

Logs(values) == UNION {[1..n -> values] : n \in 0..MaxLog}

InitEmit ==
    /\ catProducer = None
    /\ catPhase = "init"
    /\ ordProducer = None
    /\ ordPhase = "init"
    /\ catalogDb = [products |-> <<>>, nextId |-> 1]
    /\ orderDb = EmptyOrderDb
    /\ clock = 0
    /\ dropped = {}
    /\ last = Called("none", "none", 0, "none", FALSE)
    /\ sends = [svc \in Services |-> [i \in Callers |-> NoSend]]
    /\ stops = [svc \in Services |-> "idle"]

InitClock ==
    /\ utc = TicksPerDay
    /\ zone = 0
    /\ resp = NoResp

InitConsumer ==
    /\ pc = "top"
    /\ consumer = None
    /\ position = [t \in TOPICS |-> 0]
    /\ committed = [t \in TOPICS |-> 0]
    /\ msg = NoMsg
    /\ tx = EmptyTx
    /\ idx = 1
    /\ handled = <<>>
    /\ crashes = 0
    /\ connFails = 0
    /\ slept = "start"
    /\ race = [i \in Instances |-> Idle]
    /\ seed = 0

InitLoop ==
    /\ store = EmptyStore
    /\ InitConsumer
    /\ InitClock

\* every process freshly started, empty stores, empty topics
Init ==
    /\ InitEmit
    /\ InitLoop
    /\ broker = [t \in Topics |-> <<>>]

\* the consumer starts against topics that already hold messages
InitAgg ==
    /\ InitEmit
    /\ InitLoop
    /\ \E v \in Logs(ViewValues), o \in Logs(OrderValues) :
          /\ Len(v) + Len(o) <= MaxLog
          /\ broker = [t \in Topics |->
                         IF t = "product_views" THEN v
                         ELSE IF t = "order_events" THEN o ELSE <<>>]

EmitNext ==
    \/ \E net \in Nets : CatStart(net)
    \/ \E closeOk \in BOOLEAN : CatStop(closeOk)
    \/ CatRestart
    \/ \E net \in Nets : OrdStart(net)
    \/ \E closeOk \in BOOLEAN : OrdStop(closeOk)
    \/ OrdRestart
    \/ \E p \in Products, net \in Nets : GetProduct(p, net)
    \/ \E payload \in ProductPayloads, net \in Nets, commitOk \in BOOLEAN :
          CreateProduct(payload, net, commitOk)
    \/ \E p \in Products, payload \in ProductUpdates, net \in Nets,
          commitOk \in BOOLEAN : UpdateProduct(p, payload, net, commitOk)
    \/ \E p \in Products, net \in Nets, commitOk \in BOOLEAN :
          DeleteProduct(p, net, commitOk)
    \/ \E o \in OrderInputs, net \in Nets : CreateOrder(o, net)
    \/ \E i \in 1..MaxOrders, s \in Statuses, net \in Nets :
          UpdateOrderStatus(i, s, net)

AggNext ==
    \/ \E net \in Nets : consume_connect(net)
    \/ \E t \in TOPICS : consume_next(t)
    \/ consume_lost
    \/ \E dbOk \in BOOLEAN : handle_view(dbOk)
    \/ \E dbOk \in BOOLEAN : handle_order(dbOk)
    \/ \E dbOk \in BOOLEAN : handle_order_item(dbOk)
    \/ \E dbOk \in BOOLEAN : session_commit(dbOk)
    \/ auto_commit
    \/ consume_except
    \/ \E stopOk \in BOOLEAN : consume_finally(stopOk)
    \/ \E stopOk \in BOOLEAN : Cancel(stopOk)
    \/ Crash

Next == EmitNext \/ AggNext

\* the whole pipeline: producers, broker, consumer
Spec == Init /\ [][Next]_vars

\* the consumer while nothing goes wrong in its process or its connection;
\* the offsets it commits are read only when a consumer starts anew, and are
\* left out here.
\* Fed by the upstream services alone the order handler never reaches its
\* line items: neither event on order_events carries "items_count".
LoopNext ==
    \/ consume_connect("ok")
    \/ \E t \in TOPICS : consume_next(t)
    \/ \E dbOk \in BOOLEAN : handle_view(dbOk)
    \/ \E dbOk \in BOOLEAN : handle_order(dbOk)
    \/ \E dbOk \in BOOLEAN : session_commit(dbOk)

\* producers, broker and a consumer whose process and connection stay up; the
\* consumer's crash and reconnect paths are exercised by AggSpec
PipeSpec == Init /\ [][EmitNext \/ LoopNext]_vars

\* records two members of the group hold at the same time, each the first
\* of a partition of product_views or of order_events: view events of either
\* product, and the order events that have every key the handler reads
RaceRecords ==
    {[topic |-> "product_views", offset |-> 1,
      value |-> [event |-> "product_view", product_id |-> p,
                 product_name |-> ProductName(p), timestamp |-> 0]] : p \in {1, 2}}
    \cup {[topic |-> "order_events", offset |-> 1, value |-> Deserialize(v).data] :
        v \in {w \in OrderValues :
                 \A j \in 1..Len(Deserialize(w).data["items"]) :
                     Has(Deserialize(w).data["items"][j], "product_id")}}

\* the store after n views of product 1 were handled one after the other
RECURSIVE Seeded(_)
Seeded(n) ==
    IF n = 0 THEN EmptyStore
    ELSE CommitTx(Seeded(n - 1),
                  _handle_product_view(Seeded(n - 1), EmptyTx,
                      [event |-> "product_view", product_id |-> 1,
                       product_name |-> ProductName(1), timestamp |-> 0]).tx)

\* two members of the group, each with the record of its partition fetched
\* and dispatched, on a store that is empty or holds earlier views
InitRace ==
    /\ InitEmit
    /\ broker = [t \in Topics |-> <<>>]
    /\ pc = "top"
    /\ consumer = None
    /\ position = [t \in TOPICS |-> 0]
    /\ committed = [t \in TOPICS |-> 0]
    /\ msg = NoMsg
    /\ tx = EmptyTx
    /\ idx = 1
    /\ handled = <<>>
    /\ crashes = 0
    /\ connFails = 0
    /\ slept = "start"
    /\ seed \in 0..1
    /\ store = Seeded(seed)
    /\ InitClock
    /\ \E m1, m2 \in RaceRecords : race = [i \in Instances |->
                                            Running(IF i = 1 THEN m1 ELSE m2)]

RaceNext ==
    \/ \E i \in Instances : RaceView(i)
    \/ \E i \in Instances : RaceOrder(i)
    \/ \E i \in Instances : RaceOrderItem(i)
    \/ \E i \in Instances : RaceCommit(i)

\* two consumers of the group working on the one aggregate store
RaceSpec == InitRace /\ [][RaceNext]_vars

CatNext ==
    \/ \E net \in Nets : CatStart(net)
    \/ \E closeOk \in BOOLEAN : CatStop(closeOk)
    \/ CatRestart
    \/ \E p \in Products, net \in Nets : GetProduct(p, net)
    \/ \E payload \in ProductPayloads, net \in Nets, commitOk \in BOOLEAN :
          CreateProduct(payload, net, commitOk)
    \/ \E p \in Products, payload \in ProductUpdates, net \in Nets,
          commitOk \in BOOLEAN : UpdateProduct(p, payload, net, commitOk)
    \/ \E p \in Products, net \in Nets, commitOk \in BOOLEAN :
          DeleteProduct(p, net, commitOk)

\* catalog-service and its emitter alone
CatSpec == Init /\ [][CatNext]_vars

CartNext ==
    \/ \E u \in Users : GetCart(u)
    \/ \E u \in Users, item \in CartItems : AddItemToCart(u, item)
    \/ \E u \in Users, i \in 1..MaxItems, q \in 0..MaxQuantity :
          UpdateCartItem(u, i, q)
    \/ \E u \in Users, i \in 1..MaxItems : RemoveCartItem(u, i)
    \/ \E u \in Users : ClearCart(u)

\* the carts of order-service alone
CartSpec == Init /\ [][CartNext]_vars

CheckoutNext ==
    \/ \E net \in Nets : OrdStart(net)
    \/ \E u \in Users, item \in CartItems : AddItemToCart(u, item)
    \/ \E o \in OrderInputs, net \in Nets : CreateOrder(o, net)

\* order-service alone: carts are filled and orders are made
CheckoutSpec == Init /\ [][CheckoutNext]_vars

\* the upstream services and their emitters alone
EmitSpec == Init /\ [][EmitNext]_vars

\* the consumer alone, against topics that already hold messages
AggSpec == InitAgg /\ [][AggNext]_vars

\* one of the services after its startup, connected or not, no request yet;
\* the other one has not been started
InitConc ==
    /\ \E svc \in Services, net \in Nets :
          /\ catPhase = IF svc = "catalog" THEN "running" ELSE "init"
          /\ ordPhase = IF svc = "order" THEN "running" ELSE "init"
          /\ catProducer = IF svc = "catalog" THEN Wrapper_start(net).producer
                           ELSE None
          /\ ordProducer = IF svc = "order" THEN start_kafka_producer(net).producer
                           ELSE None
    /\ catalogDb = [products |-> <<>>, nextId |-> 1]
    /\ orderDb = EmptyOrderDb
    /\ clock = 0
    /\ dropped = {}
    /\ last = Called("none", "none", 0, "none", FALSE)
    /\ sends = [svc \in Services |-> [i \in Callers |-> NoSend]]
    /\ stops = [svc \in Services |-> "idle"]
    /\ broker = [t \in Topics |-> <<>>]
    /\ InitLoop

ConcNext ==
    \/ \E svc \in Services, i \in Callers : send_begin(svc, i)
    \/ \E svc \in Services, i \in Callers, net \in Nets : send_end(svc, i, net)
    \/ \E svc \in Services : stop_begin(svc)
    \/ \E svc \in Services, closeOk \in BOOLEAN : stop_end(svc, closeOk)

\* send_event calls of concurrent requests next to the shutdown's stop
ConcSpec == InitConc /\ [][ConcNext]_vars

\* the analytics API on a server in any of the time zones, empty store
InitDash ==
    /\ InitEmit
    /\ broker = [t \in Topics |-> <<>>]
    /\ InitConsumer
    /\ store = EmptyStore
    /\ utc = TicksPerDay
    /\ zone \in Zones
    /\ resp = NoResp

DashNext ==
    \/ Tick
    \/ \E amount \in Amounts : OrderAggregated(amount)
    \/ \E tieUp \in BOOLEAN, stable \in BOOLEAN : GetDashboard(tieUp, stable)

\* the dashboard while time passes and order events are aggregated
DashSpec == InitDash /\ [][DashNext]_vars

\* the top lists while views and orders of up to MaxRows products are
\* aggregated
InitTop ==
    /\ InitEmit
    /\ broker = [t \in Topics |-> <<>>]
    /\ InitLoop

TopNext ==
    \/ \E p \in 1..MaxRows : ViewAggregated(p)
    \/ \E p \in 1..MaxRows : OrderLineAggregated(p)
    \/ \E stable \in BOOLEAN : GetPopularByViews(stable)
    \/ \E stable \in BOOLEAN : GetPopularByOrders(stable)

TopSpec == InitTop /\ [][TopNext]_vars

(* ------------------------------ claims --------------------------------- *)
HandlerOps == {"get_product", "create_product", "update_product", "delete_product",
               "create_order", "update_order_status"}

\* C2: a send whose publish fails at transport level returns normally to its
\* caller, in both services: the handler answers with its success status, and
\* the emitter still holds its connection afterwards.
C2_SendFailureSwallowed ==
    (last.op \in HandlerOps /\ last.send = "failed")
        => /\ ~last.raised
           /\ last.status \in {200, 201, 204}
           /\ ProducerOf(last.svc) = "open"

\* C2 witness: create_order was served while the publish of its event failed
C2_Witness ==
    /\ last.op = "create_order"
    /\ last.send = "failed"
    /\ last.status = 201
    /\ ordProducer = "open"

\* C3: a start() that fails to connect returns without raising and leaves the
\* emitter without a connection handle; a handle that is None becomes non-None
\* only by the start() of a process start (phase "init"), never by a send, a
\* stop or anything else; so a send of a running process without a handle is
\* a no-op.
C3_StaysDegraded ==
    /\ []((last.op = "start" /\ last.send = "fail")
            => (~last.raised /\ ProducerOf(last.svc) = None))
    /\ []((last.op \in HandlerOps /\ last.send # "none"
           /\ ProducerOf(last.svc) = None) => last.send = "degraded")
    /\ [][/\ (catProducer = None /\ catProducer' # None)
                => (catPhase = "init" /\ catPhase' = "running")
          /\ (ordProducer = None /\ ordProducer' # None)
                => (ordPhase = "init" /\ ordPhase' = "running")]_vars

\* C3 witness: after a failed start the running order-service served a request
\* and its event was dropped
C3_Witness ==
    /\ ordPhase = "running"
    /\ ordProducer = None
    /\ last.op = "create_order"
    /\ last.send = "degraded"
    /\ last.status = 201

\* C4: stop() never raises and leaves the emitter without a connection
\* handle, in both emitters, also when closing the connection fails.
C4_StopNeverRaises ==
    last.op = "stop" => (~last.raised /\ ProducerOf(last.svc) = None)

\* the responses and the store a request leaves behind, for one emitter mode
EmitterModes == {<<None, "ok">>, <<"open", "ok">>, <<"open", "fail">>}

CatalogOutcomes(m) ==
    LET Seen(res) == <<res.status, res.body, get_db(catalogDb, res)>>
    IN <<[p \in Products |->
            Seen(get_product(catalogDb, p, m[1], m[2], broker, clock + 1))],
         [pl \in ProductPayloads |->
            Seen(create_product(catalogDb, pl, m[1], m[2], broker, clock + 1))],
         [x \in Products \X ProductUpdates |->
            Seen(update_product(catalogDb, x[1], x[2], m[1], m[2], broker, clock + 1))],
         [p \in Products |->
            Seen(delete_product(catalogDb, p, m[1], m[2], broker, clock + 1))]>>

OrderOutcomes(m) ==
    LET Seen(res) == <<res.status, res.body, res.db>>
    IN <<[o \in OrderInputs |->
            Seen(create_order(orderDb, o, m[1], m[2], broker, clock + 1))],
         [x \in (1..MaxOrders) \X Statuses |->
            Seen(update_order_status(orderDb, x[1], x[2], m[1], m[2], broker,
                                     clock + 1))]>>

\* C5: for every request to a handler that emits an event, the response and
\* the service's persisted state are the same whether the emitter is
\* connected, degraded, or fails during the send.
C5_NonInterference ==
    \A m \in EmitterModes :
        /\ CatalogOutcomes(m) = CatalogOutcomes(<<None, "ok">>)
        /\ OrderOutcomes(m) = OrderOutcomes(<<None, "ok">>)

\* C5 witness: a product exists and an order exists, so that get, update,
\* delete and update_order_status have a success case to compare, and the
\* last request was served while its send failed
C5_Witness ==
    /\ DOMAIN catalogDb.products # {}
    /\ orderDb.orders # <<>>
    /\ last.op \in HandlerOps
    /\ last.send = "failed"
    /\ last.status \in {200, 201, 204}

(* ---------------------- claims about the consumer ---------------------- *)
RECURSIVE SumTo(_, _)
\* f[1] + ... + f[n]
SumTo(f, n) == IF n = 0 THEN 0 ELSE f[n] + SumTo(f, n - 1)

EventProducts == Products \cup {1, 2}

\* the payload at offset k of topic t, when it is JSON
IsJson(t, k) == Deserialize(broker[t][k]).ok
Payload(t, k) == Deserialize(broker[t][k]).data

\* 1 when record k of product_views is a view of product p
IsViewOf(k, p) ==
    IF IsJson("product_views", k) /\ Has(Payload("product_views", k), "product_id")
       /\ Payload("product_views", k)["product_id"] = p
    THEN 1 ELSE 0

\* line items of record k of order_events that carry product p
LineItems(k, p) ==
    IF ~IsJson("order_events", k) THEN 0
    ELSE LET items == Get(Payload("order_events", k), "items", <<>>)
         IN Cardinality({i \in 1..Len(items) :
                Has(items[i], "product_id") /\ items[i]["product_id"] = p})

\* committed handler runs of record k of topic t
OkTimes(t, k) == Times(handled, t, k, "ok")
FinishedTimes(t, k) ==
    Times(handled, t, k, "ok") + Times(handled, t, k, "failed")
    + Times(handled, t, k, "unknown")

\* the aggregate columns of product p in table rows (0 without a row)
ViewCount(rows, p) ==
    SumTo([i \in 1..Len(rows) |->
             IF rows[i].product_id = p THEN rows[i].view_count ELSE 0], Len(rows))
OrderCount(rows, p) ==
    SumTo([i \in 1..Len(rows) |->
             IF rows[i].product_id = p THEN rows[i].order_count ELSE 0], Len(rows))
ViewRecords(views, p) == Cardinality({i \in 1..Len(views) : views[i].product_id = p})

\* the step finished the loop body of record <<t, k>> with this outcome
Finishes(t, k, outcome) ==
    Times(handled', t, k, outcome) > Times(handled, t, k, outcome)

\* C6: when a handler raises on a well-formed message the loop stays
\* subscribed on the same consumer and goes back to waiting for the next
\* message; the step changes neither the store nor the positions nor the
\* topics, and the failed record lies behind the position, so this consumer
\* does not fetch it again.
C6_HandlerFailureContinues ==
    [][\A t \in TOPICS : \A k \in 1..Len(broker[t]) :
          Finishes(t, k, "failed")
            => /\ pc' = "iter"
               /\ consumer = "started" /\ consumer' = consumer
               /\ store' = store
               /\ tx' = EmptyTx
               /\ position' = position /\ position[t] >= k
               /\ committed' = committed
               /\ broker' = broker]_vars

\* C6 witness: the first record of order_events failed in its handler, left
\* nothing in the store, and the second was then handled
C6_Witness ==
    /\ Times(handled, "order_events", 1, "failed") > 0
    /\ OkTimes("order_events", 1) = 0
    /\ OkTimes("order_events", 2) > 0
    /\ Len(store.metrics) = 1
    /\ crashes = 0 /\ connFails = 0

\* C7: a record that fails to deserialize is dropped: fetching it leaves the
\* loop subscribed on the same consumer, waiting for the next message, with
\* the position past the record.
C7_MalformedDropped ==
    [][\A t \in TOPICS :
          (consume_next(t) /\ ~IsJson(t, position[t] + 1))
            => /\ pc' = "iter"
               /\ consumer' = consumer
               /\ position'[t] = position[t] + 1]_vars

\* C8: the committed store holds whole messages only. The fact records are
\* exactly those of the committed handler runs, and the counters of every
\* product are exactly the sum over the committed runs: a run that failed,
\* or has not committed yet, has left neither its fact record nor any of its
\* line items' increments.
C8_HandlerAtomic ==
    LET nv == Len(broker["product_views"])
        no == Len(broker["order_events"])
    IN /\ Len(store.views) = SumTo([k \in 1..nv |-> OkTimes("product_views", k)], nv)
       /\ Len(store.metrics) = SumTo([k \in 1..no |-> OkTimes("order_events", k)], no)
       /\ \A p \in EventProducts :
            /\ ViewRecords(store.views, p)
                 = SumTo([k \in 1..nv |-> OkTimes("product_views", k) * IsViewOf(k, p)], nv)
            /\ ViewCount(store.popular, p)
                 = SumTo([k \in 1..nv |-> OkTimes("product_views", k) * IsViewOf(k, p)], nv)
            /\ OrderCount(store.popular, p)
                 = SumTo([k \in 1..no |-> OkTimes("order_events", k) * LineItems(k, p)], no)

\* C8 witness: an order event failed on its second line item after its first
\* line item was counted in the transaction; the store has no trace of it
C8_Witness ==
    /\ Len(broker["order_events"]) >= 1
    /\ LineItems(1, 1) = 1
    /\ Len(Get(Payload("order_events", 1), "items", <<>>)) = 2
    /\ Times(handled, "order_events", 1, "failed") > 0
    /\ store.metrics = <<>>
    /\ OrderCount(store.popular, 1) = 0

\* C9: the committed offset of the group never lies past a record whose
\* loop body has not finished.
C9_OffsetBehindHandlers ==
    \A t \in TOPICS : \A k \in 1..committed[t] : FinishedTimes(t, k) >= 1

\* C10: every committed run of the view handler adds one ViewRecord and one
\* to view_count of the record's product, also when the same record was
\* handled before: a record delivered twice is counted twice.
C10_NoDeduplication ==
    [][\A k \in 1..Len(broker["product_views"]) : \A p \in EventProducts :
          (Finishes("product_views", k, "ok") /\ IsViewOf(k, p) = 1)
            => /\ ViewCount(store'.popular, p) = ViewCount(store.popular, p) + 1
               /\ ViewRecords(store'.views, p) = ViewRecords(store.views, p) + 1]_vars

\* C10 witness: one view record of product 1 is on the topic, the process
\* crashed after the handler's commit and before an offset commit, and after
\* the restart the record was handled again: view_count 2, two ViewRecords
C10_Witness ==
    /\ Len(broker["product_views"]) = 1
    /\ IsViewOf(1, 1) = 1
    /\ crashes = 1
    /\ OkTimes("product_views", 1) = 2
    /\ ViewCount(store.popular, 1) = 2
    /\ ViewRecords(store.views, 1) = 2

(* ---------------------- claims about the pipeline ---------------------- *)
\* the stamp an upstream handler put on the event at offset k of topic t
Stamp(t, k) ==
    IF ~IsJson(t, k) THEN 0
    ELSE Get(Payload(t, k), "timestamp",
             Get(Payload(t, k), "created_at", Get(Payload(t, k), "updated_at", 0)))

\* C1: a send on an emitter without a connection returns normally (the
\* handler answers with its success status), leaves the emitter without a
\* connection and puts nothing on any topic; no handler of the consumer ever
\* runs on such an event, and every fact record and every counter in the
\* aggregate store stems from a committed handler run on a record that is on
\* the broker, so the event leaves no trace in the store.
C1_DegradedSendIsNoOp ==
    /\ (last.op \in HandlerOps /\ last.send = "degraded")
          => /\ ~last.raised
             /\ last.status \in {200, 201, 204}
             /\ ProducerOf(last.svc) = None
    /\ \A ts \in dropped :
          /\ \A t \in Topics : \A k \in 1..Len(broker[t]) : Stamp(t, k) # ts
          /\ \A x \in DOMAIN handled : x[2] <= Len(broker[x[1]]) /\ Stamp(x[1], x[2]) # ts
    /\ LET nv == Len(broker["product_views"])
           no == Len(broker["order_events"])
       IN /\ Len(store.views) + Len(store.metrics)
               = SumTo([k \in 1..nv |-> OkTimes("product_views", k)], nv)
                 + SumTo([k \in 1..no |-> OkTimes("order_events", k)], no)
          /\ \A i \in 1..Len(store.popular) :
               /\ store.popular[i].view_count
                    = ViewRecords(store.views, store.popular[i].product_id)
               /\ store.popular[i].order_count
                    = SumTo([k \in 1..no |-> OkTimes("order_events", k)
                               * LineItems(k, store.popular[i].product_id)], no)

\* C1 witness: the catalog-service dropped the event of a request served
\* before its emitter was started, later published a view event that the
\* consumer aggregated; the store holds the one view and nothing else
C1_Witness ==
    /\ dropped = {1}
    /\ clock = 2
    /\ Len(broker["product_views"]) = 1
    /\ Stamp("product_views", 1) = 2
    /\ OkTimes("product_views", 1) = 1
    /\ Len(store.views) = 1
    /\ Len(store.popular) = 1

(* ---------------- claims about reconnect and cancellation --------------- *)
\* C11: a connection-level error does not end the loop. Every step that counts
\* such an error enters the outer except; from there the loop goes on only
\* through the full retry delay to the finally block, and from the finally
\* block to the top of "while True" with no consumer left; a consumer is built
\* only when the process has just started or the delay has run since the last
\* one was built; and consume() is left only through a cancellation.
C11_ReconnectAfterDelay ==
    /\ [][connFails' > connFails => pc' = "except"]_vars
    /\ [][(pc = "except" /\ pc' # pc /\ crashes' = crashes /\ pc' # "done")
            => (pc' = "finally" /\ slept' = "yes")]_vars
    /\ [][(pc = "finally" /\ pc' # pc /\ crashes' = crashes /\ pc' # "done")
            => (pc' = "top" /\ consumer' = None)]_vars
    /\ [][(pc = "top" /\ pc' \in {"iter", "except"}) => slept # "no"]_vars
    /\ [][(pc' = "done" /\ pc # pc') => \E stopOk \in BOOLEAN : Cancel(stopOk)]_vars

\* C11 witness: the first consumer failed to start, the loop slept, stopped
\* it, and a second consumer is now started and subscribed
C11_Witness ==
    /\ connFails = 1
    /\ crashes = 0
    /\ pc = "iter"
    /\ consumer = "started"
    /\ slept = "no"
    /\ position = committed

\* C12: a cancellation never aborts a handler: no record leaves the loop body
\* because of a cancellation while its handler was running.
C12_InFlightFinishes ==
    \A x \in DOMAIN handled : x[3] # "aborted"

(* ---------------------- claims about the handlers ---------------------- *)
\* the view records of product p on the topic
ViewsOf(p) == {k \in 1..Len(broker["product_views"]) : IsViewOf(k, p) = 1}

\* committed handler runs of order records that carry a line item of product p
OrderRunsOf(p) ==
    {k \in 1..Len(broker["order_events"]) :
        LineItems(k, p) > 0 /\ OkTimes("order_events", k) > 0}

\* C13: starting from the empty store, when N view events of one product
\* were handled by the one consumer, none of them twice and none of them
\* failed or aborted, the product has exactly one PopularProduct row and its
\* view_count is N; its order_count is 0 as long as no order of the product
\* was handled.
C13_ViewCountIsN ==
    \A p \in EventProducts :
        LET clean == \A k \in ViewsOf(p) :
                        /\ OkTimes("product_views", k) <= 1
                        /\ Times(handled, "product_views", k, "failed") = 0
                        /\ Times(handled, "product_views", k, "aborted") = 0
            N == Cardinality({k \in ViewsOf(p) : OkTimes("product_views", k) = 1})
        IN (clean /\ N >= 1)
             => /\ Cardinality(SelectPopular(store, EmptyTx, p)) = 1
                /\ ViewCount(store.popular, p) = N
                /\ OrderRunsOf(p) = {} => OrderCount(store.popular, p) = 0

\* C13 witness: two view events of product 1 were handled once each, without
\* any fault; the row of product 1 stands at view_count 2
C13_Witness ==
    /\ ViewsOf(1) = {1, 2}
    /\ OkTimes("product_views", 1) = 1
    /\ OkTimes("product_views", 2) = 1
    /\ crashes = 0 /\ connFails = 0
    /\ ViewCount(store.popular, 1) = 2
    /\ Len(store.popular) = 1

\* C14: the committed popular_products table has at most one row for every
\* product_id, and so has the table as the running handler's transaction
\* sees it, whatever views and orders of the product were handled before and
\* in whatever order.
C14_OneRowPerProduct ==
    \A p \in EventProducts :
        /\ Cardinality(SelectPopular(store, EmptyTx, p)) <= 1
        /\ Cardinality(SelectPopular(store, tx, p)) <= 1

\* C14 witness: a view of product 1 and an order with two lines of product 1
\* were both handled; product 1 has its one row, with both counters set
C14_Witness ==
    /\ OkTimes("product_views", 1) = 1
    /\ IsViewOf(1, 1) = 1
    /\ OkTimes("order_events", 1) = 1
    /\ LineItems(1, 1) = 2
    /\ Cardinality(SelectPopular(store, EmptyTx, 1)) = 1
    /\ ViewCount(store.popular, 1) = 1
    /\ OrderCount(store.popular, 1) = 2

\* C15: the step that commits the handler run of an order record adds to
\* order_count of every product exactly the number of the record's line items
\* that carry the product, whatever their quantity, leaves view_count alone,
\* and leaves a row for every product that has a line item.
C15_OrderCountPerLine ==
    [][\A k \in 1..Len(broker["order_events"]) : \A p \in EventProducts :
          Finishes("order_events", k, "ok")
            => /\ OrderCount(store'.popular, p)
                    = OrderCount(store.popular, p) + LineItems(k, p)
               /\ ViewCount(store'.popular, p) = ViewCount(store.popular, p)
               /\ LineItems(k, p) > 0
                    => Cardinality(SelectPopular(store', EmptyTx, p)) = 1]_vars

\* C15 witness: on the empty store an order with one line of product 2 of
\* quantity 5 and two lines of product 1 was handled: order_count 1 and 2
C15_Witness ==
    /\ store.views = <<>>
    /\ Len(store.metrics) = 1
    /\ OkTimes("order_events", 1) = 1
    /\ Get(Payload("order_events", 1), "items", <<>>)[1].quantity = 5
    /\ OrderCount(store.popular, 2) = 1
    /\ OrderCount(store.popular, 1) = 2
    /\ Len(store.popular) = 2

\* C16: whenever the order handler runs, with the store available, on an
\* order_created record, it does not raise: it goes on to the line items with
\* one OrderMetric pending that carries the order's order_id, user_id and
\* total_amount.
C16_OrderEventYieldsMetric ==
    [][(handle_order(TRUE) /\ Get(msg.value, "event", "") = "order_created")
         => /\ pc' = "items"
            /\ Len(tx'.metrics) = 1
            /\ tx'.metrics[1].order_id = msg.value["order_id"]
            /\ tx'.metrics[1].user_id = msg.value["user_id"]
            /\ tx'.metrics[1].total_amount = msg.value["total_amount"]]_vars

\* the loop body is at work on a record
Processing == pc \in {"view", "order", "items", "commit"}

\* runs of the loop body on record <<t, k>> that have ended, in whatever way
\* (AllEndedTimes: committed, failed, no handler, or aborted)
AllEndedTimes(t, k) == FinishedTimes(t, k) + Times(handled, t, k, "aborted")

\* C18: the consumer has a record in hand exactly while the loop body is at
\* work, and a transaction is open only for that record; a record is fetched
\* only when none is in hand, and it is the record right after the position
\* of its topic; and of the records of a topic behind the position of a
\* started consumer every one has left the loop body, is the one in hand (the
\* last fetched), or lay behind the committed offset.
C18_OneMessageAtATime ==
    /\ [](/\ Processing <=> msg # NoMsg
          /\ tx # EmptyTx => msg # NoMsg
          /\ msg # NoMsg => msg.offset = position[msg.topic])
    /\ [][\A t \in TOPICS :
            (consumer = "started" /\ consumer' = "started" /\ position'[t] # position[t])
              => /\ pc = "iter" /\ msg = NoMsg /\ tx = EmptyTx
                 /\ position'[t] = position[t] + 1
                 /\ msg' # NoMsg => (msg'.topic = t /\ msg'.offset = position'[t])]_vars
    /\ [](consumer = "started"
            => \A t \in TOPICS : \A k \in 1..position[t] :
                  \/ AllEndedTimes(t, k) >= 1
                  \/ (msg # NoMsg /\ msg.topic = t /\ msg.offset = k)
                  \/ k <= committed[t])

\* C18 witness: the first view record was handled and committed, the second
\* is in hand with its transaction open, and nothing went wrong on the way
C18_Witness ==
    /\ Len(broker["product_views"]) = 2
    /\ OkTimes("product_views", 1) = 1
    /\ Len(store.views) = 1
    /\ pc = "commit"
    /\ msg.topic = "product_views" /\ msg.offset = 2
    /\ tx # EmptyTx
    /\ crashes = 0 /\ connFails = 0

\* C19: a field missing from a view or order payload never makes the
\* handler fail: no step of a handler that finds the store available ends
\* its record as failed.
C19_MissingFieldsDefault ==
    [][(handle_view(TRUE) \/ handle_order(TRUE) \/ handle_order_item(TRUE))
         => handled' = handled]_vars

(* ------------------ claims about two group members -------------------- *)
\* views of product p, and line items of product p, in the records the two
\* members hold
RaceViews(p) ==
    Cardinality({i \in Instances :
        /\ Dispatch(race[i].msg) = "view"
        /\ Get(race[i].msg.value, "product_id", 0) = p})
RaceLines(p) ==
    LET Lines(i) ==
          IF Dispatch(race[i].msg) # "order" THEN 0
          ELSE LET items == Get(race[i].msg.value, "items", <<>>)
               IN Cardinality({j \in 1..Len(items) :
                      Get(items[j], "product_id", 0) = p})
    IN Lines(1) + Lines(2)

\* C17: when two members of the group have both finished the handlers of
\* their records, neither handler has failed, both fact records are in the
\* store, and view_count and order_count of every product have grown by the
\* views and the line items of both records.
C17_NoLostUpdate ==
    (\A i \in Instances : race[i].pc = "done")
      => /\ \A i \in Instances : race[i].out = "ok"
         /\ Len(store.views) + Len(store.metrics) = seed + 2
         /\ \A p \in EventProducts :
              /\ ViewCount(store.popular, p)
                   = (IF p = 1 THEN seed ELSE 0) + RaceViews(p)
              /\ OrderCount(store.popular, p) = RaceLines(p)

(* ------------------ claims about the upstream services ----------------- *)
\* the events a step appends to topic t
Published(t) ==
    {Deserialize(broker'[t][k]).data : k \in (Len(broker[t]) + 1)..Len(broker'[t])}

\* C20: every step that publishes the event of a catalog or order change
\* leaves that change committed in the service's store: a created product or
\* order is stored, a deleted product is gone, an updated order carries the
\* published status.
C20_PublishAfterCommit ==
    [][/\ \A ev \in Published("catalog_events") :
            /\ ev["event"] = "product_created"
                 => ev["product_id"] \in DOMAIN catalogDb'.products
            /\ ev["event"] = "product_deleted"
                 => ev["product_id"] \notin DOMAIN catalogDb'.products
       /\ \A ev \in Published("order_events") :
            /\ ev["order_id"] \in 1..Len(orderDb'.orders)
            /\ orderDb'.orders[ev["order_id"]].status = ev["status"]]_vars

\* sends of a service that were delivered
Delivered(svc) == {i \in Callers : sends[svc][i].out = "sent"}

\* C21: however the send_event calls of concurrent requests and a stop call
\* on the same emitter interleave, no send raises to its caller, none is cut
\* short by stop (a send in flight ends as delivered or as a logged failure
\* of its own), and a send that begins after stop has returned returns at
\* once without publishing; the topic holds the delivered events and no more.
C21_SendsNextToStop ==
    \A svc \in Services :
        /\ \A i \in Callers :
              LET s == sends[svc][i]
              IN /\ s.pc # "raised"
                 /\ s.out \in {"", "degraded", "sent", "failed"}
                 /\ s.pc = "inflight" => s.out = ""
                 /\ s.began = "returned" => s.pc = "returned" /\ s.out = "degraded"
        /\ Len(broker[SendTopic(svc)]) = Cardinality(Delivered(svc))

\* a stop that began and returned while one send was in flight, which was
\* delivered afterwards; another send began after the stop and was dropped
C21_Witness ==
    \E svc \in Services : \E i, j \in Callers :
        /\ stops[svc] = "returned"
        /\ sends[svc][i].began = "idle"
        /\ sends[svc][i].ended = "returned"
        /\ sends[svc][i].out = "sent"
        /\ sends[svc][j].began = "returned"
        /\ sends[svc][j].out = "degraded"

\* this step put one event on topic, of the given name and product, and
\* nothing on any other topic
PublishedOne(topic, name, id) ==
    LET n == Len(broker'[topic])
    IN /\ n = Len(broker[topic]) + 1
       /\ broker' = [broker EXCEPT ![topic] = Append(@, broker'[topic][n])]
       /\ Deserialize(broker'[topic][n]).ok
       /\ Deserialize(broker'[topic][n]).data["event"] = name
       /\ Deserialize(broker'[topic][n]).data["product_id"] = id

\* this step called the emitter once; when the emitter delivered, the event
\* is the one named
EmitterCalledOnce(topic, name, id) ==
    /\ clock' = clock + 1
    /\ last'.send \in {"sent", "degraded", "failed"}
    /\ IF last'.send = "sent" THEN PublishedOne(topic, name, id)
       ELSE broker' = broker

\* this step answered 404 and did not call the emitter
NotFoundNoEvent ==
    /\ last'.status = 404
    /\ last'.send = "none"
    /\ clock' = clock
    /\ broker' = broker

\* C22: a catalog request that finds its product calls the emitter exactly
\* once, with the topic and event name of the operation and the product's id
\* (get: product_views / product_view; create, update, delete: catalog_events
\* / product_created, product_updated, product_deleted); a request that ends
\* in 404 publishes nothing.
C22_OneEventPerOperation ==
    [][/\ last'.op = "get_product" =>
          \A p \in Products, net \in Nets :
            GetProduct(p, net) =>
                IF p \in DOMAIN catalogDb.products
                THEN /\ last'.status = 200
                     /\ EmitterCalledOnce("product_views", "product_view", p)
                ELSE NotFoundNoEvent
       /\ last'.op = "create_product" =>
          \A payload \in ProductPayloads, net \in Nets, commitOk \in BOOLEAN :
            CreateProduct(payload, net, commitOk) =>
                /\ last'.status = 201
                /\ EmitterCalledOnce("catalog_events", "product_created",
                                     catalogDb.nextId)
       /\ last'.op = "update_product" =>
          \A p \in Products, payload \in ProductUpdates, net \in Nets,
             commitOk \in BOOLEAN :
            UpdateProduct(p, payload, net, commitOk) =>
                IF p \in DOMAIN catalogDb.products
                THEN /\ last'.status = 200
                     /\ EmitterCalledOnce("catalog_events", "product_updated", p)
                ELSE NotFoundNoEvent
       /\ last'.op = "delete_product" =>
          \A p \in Products, net \in Nets, commitOk \in BOOLEAN :
            DeleteProduct(p, net, commitOk) =>
                IF p \in DOMAIN catalogDb.products
                THEN /\ last'.status = 204
                     /\ EmitterCalledOnce("catalog_events", "product_deleted", p)
                ELSE NotFoundNoEvent]_vars

\* a product was created and then fetched, both events were delivered
C22_Witness ==
    /\ last = Called("catalog", "get_product", 200, "sent", FALSE)
    /\ Len(broker["catalog_events"]) = 1
    /\ Payload("catalog_events", 1)["event"] = "product_created"
    /\ Len(broker["product_views"]) = 1
    /\ Payload("product_views", 1)["event"] = "product_view"
    /\ Payload("product_views", 1)["product_id"]
         = Payload("catalog_events", 1)["product_id"]

(* --------------------- claims about the analytics API ------------------ *)
Abs(x) == IF x < 0 THEN -x ELSE x

\* C23: the dashboard's avg_order_value is total_revenue / total_orders
\* rounded to two decimals (the nearest cent) when there are orders, and 0
\* when there are none: the quotient is not taken on an empty store.
C23_AvgOrderValue ==
    resp.kind = "dashboard" =>
        LET n == Len(store.metrics)
            revenue == SumAmount(store.metrics)
        IN /\ resp.total_orders = n
           /\ resp.total_revenue = revenue
           /\ IF n > 0
              THEN 2 * Abs(resp.avg_order_value * n - revenue) <= n
              ELSE resp.avg_order_value = 0

\* three orders of 5 cents in all: the average 1.67 is reported as 2 cents
C23_Witness ==
    /\ resp.kind = "dashboard"
    /\ resp.total_orders = 3
    /\ resp.total_revenue = 5
    /\ resp.avg_order_value = 2

\* the local time of the server at the UTC time t
Local(t) == t + zone

\* the OrderMetric records stored since the local midnight of the current
\* local day
StoredToday ==
    {i \in 1..Len(store.metrics) :
        Local(store.metrics[i].created_at) >= (Local(utc) \div TicksPerDay) * TicksPerDay}

\* C24: orders_today counts exactly the OrderMetric records stored at or
\* after the local midnight of the server's current day: a record stored in
\* the last moment of the previous local day is left out, a record stored at
\* any moment of the current local day is counted.
C24_OrdersTodayLocal ==
    resp.kind = "dashboard" => resp.orders_today = Cardinality(StoredToday)

\* the column a top list is ordered by
RankedBy == IF resp.kind = "views" THEN "view_count" ELSE "order_count"

\* the products a top list names
Listed == {resp.rows[i].product_id : i \in 1..Len(resp.rows)}

\* C25: a top list by views or by orders has exactly min(10, number of
\* rows) rows, each the row of another product of the table, in descending
\* order of the count, and every row left out has a count no greater than
\* that of any row returned.
C25_TopTen ==
    resp.kind \in {"views", "orders"} =>
        LET table == store.popular
            rows == resp.rows
        IN /\ Len(rows) = IF Len(table) < 10 THEN Len(table) ELSE 10
           /\ Cardinality(Listed) = Len(rows)
           /\ \A i \in 1..Len(rows) :
                 \E k \in 1..Len(table) : rows[i] = PopularProductResponse(table[k])
           /\ \A i, j \in 1..Len(rows) :
                 i < j => Col(rows[i], RankedBy) >= Col(rows[j], RankedBy)
           /\ \A k \in 1..Len(table) :
                 table[k].product_id \notin Listed =>
                     \A i \in 1..Len(rows) :
                         Col(table[k], RankedBy) <= Col(rows[i], RankedBy)

\* twelve products, viewed twice or once: the list by views has ten rows,
\* from a product viewed twice down to one viewed once, and leaves out two
C25_Witness ==
    /\ Len(store.popular) = 12
    /\ resp.kind = "views"
    /\ Len(resp.rows) = 10
    /\ resp.rows[1].view_count = 2
    /\ resp.rows[10].view_count = 1

(* ------------------------ claims about the carts ----------------------- *)
\* the lines of the user's cart that hold product p
LinesOf(db, u, p) ==
    IF u \notin DOMAIN db.carts THEN {}
    ELSE {j \in 1..Len(db.carts[u]) : db.carts[u][j].product_id = p}

CartSize(db, u) == IF u \in DOMAIN db.carts THEN Len(db.carts[u]) ELSE 0

\* C26: whatever add, update, remove and clear requests a cart has seen, it
\* holds at most one line per product; adding a product that is in the cart
\* adds the requested quantity to its line and creates no line, adding
\* another product creates one line with the requested quantity.
C26_OneLinePerProduct ==
    /\ [](\A u \in Users, p \in Products : Cardinality(LinesOf(orderDb, u, p)) <= 1)
    /\ [][last'.op = "add_item_to_cart" =>
            \A u \in Users, item \in CartItems :
                AddItemToCart(u, item) =>
                    /\ last'.status = 201
                    /\ InCart(orderDb', u, item.product_id)
                         = InCart(orderDb, u, item.product_id) + item.quantity
                    /\ CartSize(orderDb', u)
                         = IF LinesOf(orderDb, u, item.product_id) # {}
                           THEN CartSize(orderDb, u)
                           ELSE CartSize(orderDb, u) + 1
                    /\ \A p \in Products \ {item.product_id} :
                          InCart(orderDb', u, p) = InCart(orderDb, u, p)]_vars

\* two adds of product 1 and one of product 2 have left two lines, the one
\* of product 1 with quantity 3
C26_Witness ==
    /\ last.op = "add_item_to_cart"
    /\ orderDb.nextItem = 3
    /\ CartSize(orderDb, 1) = 2
    /\ InCart(orderDb, 1, 1) = 3
    /\ InCart(orderDb, 1, 2) = 1

\* what every create_order request does, whatever becomes of the cart: it is
\* rejected with 400 exactly when it names no items and the user has no cart
\* line, and then stores nothing and publishes nothing; otherwise it stores
\* one order
OrderOr400(o) ==
    IF o.items = <<>> /\ CartSize(orderDb, o.user_id) = 0
    THEN /\ last'.status = 400
         /\ orderDb' = orderDb
         /\ broker' = broker
         /\ clock' = clock
    ELSE /\ last'.status = 201
         /\ Len(orderDb'.orders) = Len(orderDb.orders) + 1

\* C27 (as stated): after a successful create_order the user's cart exists
\* and has no lines, whether the items came from the cart or from the
\* request; a request rejected with 400 stores no order and publishes no
\* event.
C27_CartExistsAndIsEmpty ==
    [][last'.op = "create_order" =>
        \A o \in OrderInputs, net \in Nets :
            CreateOrder(o, net) =>
                /\ OrderOr400(o)
                /\ last'.status = 201 =>
                      /\ o.user_id \in DOMAIN orderDb'.carts
                      /\ orderDb'.carts[o.user_id] = <<>>]_vars

\* C27 (amended): after a successful create_order the user has no cart line
\* left, whether the items came from the cart or from the request: a cart
\* that exists is empty, and none is created for a user who has none; a
\* request rejected with 400 stores no order and publishes no event.
C27_NoCartLineLeft ==
    [][last'.op = "create_order" =>
        \A o \in OrderInputs, net \in Nets :
            CreateOrder(o, net) =>
                /\ OrderOr400(o)
                /\ last'.status = 201 =>
                      /\ CartSize(orderDb', o.user_id) = 0
                      /\ DOMAIN orderDb'.carts = DOMAIN orderDb.carts]_vars

\* an order made from a cart that held three of product 2: the order has the
\* line, the event is out, the cart is there and empty
C27_Witness ==
    /\ last = Called("order", "create_order", 201, "sent", FALSE)
    /\ Len(orderDb.orders) = 1
    /\ orderDb.orders[1].items = <<OrderItem(2, 3)>>
    /\ 1 \in DOMAIN orderDb.carts
    /\ orderDb.carts[1] = <<>>
    /\ Len(broker["order_events"]) = 1

(* ------------------ claims about the consumer, continued --------------- *)
\* record k of order_events is a status event of update_order_status
IsStatusEvent(k) ==
    /\ k \in 1..Len(broker["order_events"])
    /\ IsJson("order_events", k)
    /\ Get(Payload("order_events", k), "event", "") = "order_status_updated"

\* the loop body holds a status event
HoldsStatusEvent == msg.topic = "order_events" /\ IsStatusEvent(msg.offset)

C29_CountersMatchRecords ==
    /\ [](\A p \in EventProducts :
            ViewCount(store.popular, p) = ViewRecords(store.views, p))
    /\ [][\A p \in EventProducts :
            /\ ViewCount(store'.popular, p) >= ViewCount(store.popular, p)
            /\ OrderCount(store'.popular, p) >= OrderCount(store.popular, p)]_vars

\* one view event on the topic, handled, and handled again after the process
\* died before the offset was committed: two records, view_count 2; a
\* record of order_events has failed in between
C29_Witness ==
    /\ Len(broker["product_views"]) = 1
    /\ crashes = 1
    /\ ViewRecords(store.views, 1) = 2
    /\ ViewCount(store.popular, 1) = 2
    /\ \E k \in 1..Len(broker["order_events"]) :
          Times(handled, "order_events", k, "failed") > 0

\* C30: the loop has at most one consumer at a time: a consumer is built
\* only when the one before it has been stopped, and when the loop is left
\* for good its consumer has been stopped. A stop that fails counts as done:
\* it ends neither the loop nor the next attempt.
C30_StoppedBeforeNext ==
    /\ [](pc = "done" => consumer # "started")
    /\ [][consumer' # consumer /\ consumer' # None => consumer = None]_vars
    /\ [][pc = "finally" /\ pc' \notin {"finally", "done"}
            => pc' = "top" /\ consumer' = None]_vars

====
